---- MODULE Spec2Model ----
(***************************************************************************)
(* Plex-Unmatched-Metadata-Sync: the matching engine (ArtistMatcher), the  *)
(* Spotify search client it drives (SpotifyConnector: cache, rate limiter, *)
(* name normalisation, similarity), and the review ledger (MatchReviewer). *)
(*                                                                         *)
(* Names are sequences of one-character strings.  Times are in tenths of   *)
(* a second.  Similarities and confidences are exact rationals scaled by   *)
(* Scale (1.0 is Scale); the program computes them in floating point.      *)
(***************************************************************************)
EXTENDS Integers, Sequences, FiniteSets, TLC

(***************************************************************************)
(* Characters and strings                                                  *)
(***************************************************************************)

\* str.lower() on the characters the model uses
ToLower(c) ==
  CASE c = "A" -> "a"
    [] c = "B" -> "b"
    [] OTHER -> c

\* the characters matched by \w
WordChars == {"a", "b", "c", "d", "e", "f", "n", "t", "x", "A", "B", "1", "_"}

\* the characters matched by \s
SpaceChars == {" ", "\t"}

Lower(s) == [i \in 1..Len(s) |-> ToLower(s[i])]

\* re.sub(o [^c]* c, '', s): leftmost non-overlapping spans from an opener
\* to the first closer after it are removed
RECURSIVE RemoveDelimited(_, _, _)
RemoveDelimited(s, o, c) ==
  IF s = <<>> THEN <<>>
  ELSE IF Head(s) = o /\ \E j \in 2..Len(s) : s[j] = c
       THEN LET j == CHOOSE k \in 2..Len(s) :
                       s[k] = c /\ \A m \in 2..(k - 1) : s[m] # c
            IN  RemoveDelimited(SubSeq(s, j + 1, Len(s)), o, c)
       ELSE <<Head(s)>> \o RemoveDelimited(Tail(s), o, c)

\* re.sub(r'[^\w\s\-]', '', s)
IsKept(ch) == ch \in WordChars \cup SpaceChars \cup {"-"}

RemoveSpecial(s) == SelectSeq(s, IsKept)

\* re.sub(r'\s+', ' ', s)
RECURSIVE CollapseSpaces(_)
CollapseSpaces(s) ==
  IF s = <<>> THEN <<>>
  ELSE IF Head(s) \in SpaceChars
       THEN IF Len(s) > 1 /\ s[2] \in SpaceChars
            THEN CollapseSpaces(Tail(s))
            ELSE <<" ">> \o CollapseSpaces(Tail(s))
       ELSE <<Head(s)>> \o CollapseSpaces(Tail(s))

\* str.strip()
RECURSIVE StripLeft(_)
StripLeft(s) ==
  IF s # <<>> /\ Head(s) \in SpaceChars THEN StripLeft(Tail(s)) ELSE s

RECURSIVE StripRight(_)
StripRight(s) ==
  IF s # <<>> /\ s[Len(s)] \in SpaceChars
  THEN StripRight(SubSeq(s, 1, Len(s) - 1))
  ELSE s

Strip(s) == StripRight(StripLeft(s))

\* NormalizeArtistName that strips before it removes the special characters
NormalizeArtistNameStripsFirst(name) ==
  IF name = <<>> THEN <<>>
  ELSE CollapseSpaces(RemoveSpecial(Strip(
         RemoveDelimited(RemoveDelimited(Lower(name), "(", ")"), "[", "]"))))

\* SpotifyConnector._normalize_artist_name
NormalizeArtistName(name) ==
  IF name = <<>> THEN <<>>
  ELSE Strip(CollapseSpaces(RemoveSpecial(
         RemoveDelimited(RemoveDelimited(Lower(name), "(", ")"), "[", "]"))))

\* p occurs in s at position i
OccursAt(s, p, i) ==
  /\ i + Len(p) - 1 <= Len(s)
  /\ \A k \in 1..Len(p) : s[i + k - 1] = p[k]

\* p in s
Contains(s, p) == \E i \in 1..(Len(s) + 1) : OccursAt(s, p, i)

\* s.replace(p, r) for non-empty p
RECURSIVE ReplaceAll(_, _, _)
ReplaceAll(s, p, r) ==
  IF s = <<>> THEN <<>>
  ELSE IF OccursAt(s, p, 1)
       THEN r \o ReplaceAll(SubSeq(s, Len(p) + 1, Len(s)), p, r)
       ELSE <<Head(s)>> \o ReplaceAll(Tail(s), p, r)

\* s.split(ch): the pieces between occurrences of ch, empty pieces included
RECURSIVE SplitOn(_, _)
SplitOn(s, ch) ==
  IF \A i \in 1..Len(s) : s[i] # ch THEN <<s>>
  ELSE LET j == CHOOSE k \in 1..Len(s) : s[k] = ch /\ \A m \in 1..(k - 1) : s[m] # ch
       IN  <<SubSeq(s, 1, j - 1)>> \o SplitOn(SubSeq(s, j + 1, Len(s)), ch)

(***************************************************************************)
(* Exact rationals (floats of the program)                                 *)
(***************************************************************************)

RECURSIVE Gcd(_, _)
Gcd(a, b) == IF b = 0 THEN a ELSE Gcd(b, a % b)

\* the rational n/d in lowest terms, d > 0
Frac(n, d) ==
  LET g == Gcd(IF n < 0 THEN -n ELSE n, d)
  IN  [n |-> n \div g, d |-> d \div g]

FracAdd(x, y) == Frac(x.n * y.d + y.n * x.d, x.d * y.d)
FracLE(x, y) == x.n * y.d <= y.n * x.d
FracLT(x, y) == x.n * y.d < y.n * x.d
FracMax(x, y) == IF FracLT(x, y) THEN y ELSE x
FracMin(x, y) == IF FracLT(y, x) THEN y ELSE x
Zero == Frac(0, 1)
One == Frac(1, 1)

(***************************************************************************)
(* difflib.SequenceMatcher(None, a, b).ratio() and the similarity score    *)
(***************************************************************************)

\* length of the common run of a from i and b from j inside a[..ahi], b[..bhi]
RECURSIVE RunLen(_, _, _, _, _, _)
RunLen(a, b, i, j, ahi, bhi) ==
  IF i > ahi \/ j > bhi THEN 0
  ELSE IF a[i] # b[j] THEN 0
  ELSE 1 + RunLen(a, b, i + 1, j + 1, ahi, bhi)

\* SequenceMatcher.find_longest_match: the longest block, earliest in a, then
\* earliest in b (no junk; the autojunk heuristic needs 200 characters)
FindLongestMatch(a, b, alo, ahi, blo, bhi) ==
  LET pairs == (alo..ahi) \X (blo..bhi)
      len(p) == RunLen(a, b, p[1], p[2], ahi, bhi)
      best == CHOOSE p \in pairs :
                \A q \in pairs :
                  \/ len(q) < len(p)
                  \/ /\ len(q) = len(p)
                     /\ \/ p[1] < q[1]
                        \/ p[1] = q[1] /\ p[2] <= q[2]
  IN  [i |-> best[1], j |-> best[2], k |-> len(best)]

\* the sum of the sizes of SequenceMatcher.get_matching_blocks
RECURSIVE MatchedChars(_, _, _, _, _, _)
MatchedChars(a, b, alo, ahi, blo, bhi) ==
  IF alo > ahi \/ blo > bhi THEN 0
  ELSE LET m == FindLongestMatch(a, b, alo, ahi, blo, bhi)
       IN  IF m.k = 0 THEN 0
           ELSE m.k + MatchedChars(a, b, alo, m.i - 1, blo, m.j - 1)
                    + MatchedChars(a, b, m.i + m.k, ahi, m.j + m.k, bhi)

\* SequenceMatcher.ratio: 2*M/T, and 1.0 for two empty strings
SequenceRatio(a, b) ==
  IF Len(a) + Len(b) = 0 THEN One
  ELSE Frac(2 * MatchedChars(a, b, 1, Len(a), 1, Len(b)), Len(a) + Len(b))

\* CalculateSimilarityScore that compares the names as they were given
CalculateSimilarityScoreOfRawNames(name1, name2) ==
  LET shorter == IF Len(name2) < Len(name1) THEN Len(name2) ELSE Len(name1)
      longer == IF Len(name2) > Len(name1) THEN Len(name2) ELSE Len(name1)
  IN  IF name1 = name2 THEN [similarity |-> One, is_exact |-> TRUE]
      ELSE IF Contains(name2, name1) \/ Contains(name1, name2)
           THEN [similarity |-> FracMax(SequenceRatio(name1, name2), Frac(shorter, longer)),
                 is_exact |-> FALSE]
           ELSE [similarity |-> SequenceRatio(name1, name2), is_exact |-> FALSE]

\* SpotifyConnector._calculate_similarity_score
CalculateSimilarityScore(name1, name2) ==
  LET norm1 == NormalizeArtistName(name1)
      norm2 == NormalizeArtistName(name2)
      shorter == IF Len(norm2) < Len(norm1) THEN Len(norm2) ELSE Len(norm1)
      longer == IF Len(norm2) > Len(norm1) THEN Len(norm2) ELSE Len(norm1)
  IN  IF norm1 = norm2 THEN [similarity |-> One, is_exact |-> TRUE]
      ELSE IF Contains(norm2, norm1) \/ Contains(norm1, norm2)
           THEN [similarity |-> FracMax(SequenceRatio(norm1, norm2), Frac(shorter, longer)),
                 is_exact |-> FALSE]
           ELSE [similarity |-> SequenceRatio(norm1, norm2), is_exact |-> FALSE]

(***************************************************************************)
(* Bounds of the model                                                     *)
(***************************************************************************)

\* longest batch handed to process_unmatched_artists
MaxArtists == 2

\* longest item list of one provider response
MaxItems == 2

\* provider requests of one run that do not answer with an item list
MaxFailures == 1

(***************************************************************************)
(* Configuration and program constants                                     *)
(***************************************************************************)

\* ArtistMatcher.__init__
AutoMatchThreshold == Frac(95, 100)
ReviewThreshold == Frac(80, 100)
MinConfidence == ReviewThreshold
TimeoutThreshold == 250
\* max_alternatives is read from the configuration (5 when absent); the runs use 3
MaxAlternatives == 3

\* time.sleep(0.3) between artists
ArtistDelay == 3

\* SpotifyConnector.__init__
MinRequestInterval == 1
RequestLimit == 20
WindowSize == 300
CacheTimeout == 36000
CacheMaxSize == 3

\* search_artist(max_retries=3, retry_delay=1.0)
MaxRetries == 3
RetryDelay == 10

\* _process_complex_artist_name / search_artist: the separators, in order
Separators ==
  << <<"&">>, <<",">>, <<"a", "n", "d">>, <<"f", "e", "a", "t", ".">>,
     <<"f", "t", ".">>, <<"+">> >>

(***************************************************************************)
(* The library and the provider's catalogue                                *)
(***************************************************************************)

\* UnmatchedArtist records of the scanned library (title, rating_key)
Library ==
  { [rating_key |-> "k1", title |-> <<"a", "b">>],
    [rating_key |-> "k2", title |-> <<"a", "&", "b">>],
    [rating_key |-> "k3", title |-> <<"a", "b">>] }

\* artist items the provider may return (the dicts of results['artists']['items']);
\* valid is _validate_artist_data: both 'id' and 'name' are present
RawArtists ==
  { [valid |-> TRUE, id |-> "s1", name |-> <<"a", "b">>, genres |-> <<"rock">>,
     popularity |-> 50, followers |-> 7, images |-> <<"i1">>, spotify_url |-> "u1"],
    [valid |-> TRUE, id |-> "s2", name |-> <<"A", "b">>, genres |-> <<"pop">>,
     popularity |-> 80, followers |-> 9, images |-> <<"i2">>, spotify_url |-> "u2"],
    [valid |-> TRUE, id |-> "s3", name |-> <<"a">>, genres |-> <<>>,
     popularity |-> 0, followers |-> 0, images |-> <<>>, spotify_url |-> "u3"],
    [valid |-> TRUE, id |-> "s4", name |-> <<"a", "b", "c">>, genres |-> <<"jazz">>,
     popularity |-> 20, followers |-> 0, images |-> <<>>, spotify_url |-> "u4"],
    [valid |-> FALSE, id |-> "", name |-> <<>>, genres |-> <<>>,
     popularity |-> 0, followers |-> 0, images |-> <<>>, spotify_url |-> ""] }

\* sequences of distinct elements of S, of length at most n
DistinctSeqs(S, n) ==
  UNION { { q \in [1..k -> S] : \A i, j \in 1..k : i # j => q[i] # q[j] } : k \in 0..n }

\* what one spotify.search request may do
ProviderResponses ==
  { [kind |-> "ok", items |-> q] : q \in DistinctSeqs(RawArtists, MaxItems) }
    \cup { [kind |-> k, items |-> <<>>] :
             k \in {"invalid", "rate_limited", "rate_limited_no_headers", "error"} }

\* int(e.headers.get('Retry-After', retry_delay)), in tenths of a second
RetryAfter == 10

\* seconds a request may take (tenths): fast, or longer than timeout_threshold
Latencies == {0, 260}

\* SpotifyConnector._create_artist_info (None is written NoArtist)
NoArtist == [id |-> "None"]

CreateArtistInfo(artist_data) ==
  IF ~artist_data.valid THEN NoArtist
  ELSE [id |-> artist_data.id, name |-> artist_data.name,
        genres |-> artist_data.genres, popularity |-> artist_data.popularity,
        followers |-> artist_data.followers, images |-> artist_data.images,
        spotify_url |-> artist_data.spotify_url, bio |-> "None"]

(***************************************************************************)
(* SpotifyConnector: cache and rate limiter.  The connector's state is     *)
(* handled as one record st = [cache, request_count, window_start,         *)
(* last_request_time, now]; cache lists the dict's entries in insertion    *)
(* order.                                                                  *)
(***************************************************************************)

\* cache_key = f"{artist_name}_{exact_match}"
CacheKey(artist_name, exact_match) ==
  artist_name \o (IF exact_match THEN <<"_", "T", "r", "u", "e">>
                                 ELSE <<"_", "F", "a", "l", "s", "e">>)

HasKey(cache, key) == \E i \in 1..Len(cache) : cache[i].key = key

IndexOfKey(cache, key) == CHOOSE i \in 1..Len(cache) : cache[i].key = key

\* CheckCache that treats every entry as expired
CheckCacheNeverHits(st, key) ==
  IF ~HasKey(st.cache, key) THEN [hit |-> FALSE, data |-> <<>>, st |-> st]
  ELSE LET i == IndexOfKey(st.cache, key)
       IN  [hit |-> FALSE, data |-> <<>>,
            st |-> [st EXCEPT !.cache =
                      SubSeq(st.cache, 1, i - 1) \o SubSeq(st.cache, i + 1, Len(st.cache))]]

\* SpotifyConnector._check_cache: [hit, data, st]; an expired entry is deleted
CheckCache(st, key) ==
  IF ~HasKey(st.cache, key) THEN [hit |-> FALSE, data |-> <<>>, st |-> st]
  ELSE LET i == IndexOfKey(st.cache, key)
       IN  IF st.now - st.cache[i].time < CacheTimeout
           THEN [hit |-> TRUE, data |-> st.cache[i].data, st |-> st]
           ELSE [hit |-> FALSE, data |-> <<>>,
                 st |-> [st EXCEPT !.cache =
                           SubSeq(st.cache, 1, i - 1) \o SubSeq(st.cache, i + 1, Len(st.cache))]]

\* sorted(..., key=time, reverse=True): stable, newest first
RECURSIVE InsertByTimeDesc(_, _)
InsertByTimeDesc(sorted, e) ==
  IF sorted = <<>> THEN <<e>>
  ELSE IF Head(sorted).time >= e.time
       THEN <<Head(sorted)>> \o InsertByTimeDesc(Tail(sorted), e)
       ELSE <<e>> \o sorted

RECURSIVE SortByTimeDesc(_)
SortByTimeDesc(entries) ==
  IF entries = <<>> THEN <<>>
  ELSE InsertByTimeDesc(SortByTimeDesc(SubSeq(entries, 1, Len(entries) - 1)),
                        entries[Len(entries)])

\* CleanupCache that keeps the oldest entries
CleanupCacheKeepsOldest(cache) ==
  IF Len(cache) > CacheMaxSize
  THEN SubSeq(SortByTimeDesc(cache), Len(cache) - CacheMaxSize + 1, Len(cache))
  ELSE cache

\* SpotifyConnector._cleanup_cache
CleanupCache(cache) ==
  IF Len(cache) > CacheMaxSize
  THEN SubSeq(SortByTimeDesc(cache), 1, CacheMaxSize)
  ELSE cache

\* SpotifyConnector._update_cache
UpdateCache(st, key, data) ==
  LET entry == [key |-> key, time |-> st.now, data |-> data]
      stored == IF HasKey(st.cache, key)
                THEN [st.cache EXCEPT ![IndexOfKey(st.cache, key)] = entry]
                ELSE Append(st.cache, entry)
  IN  [st EXCEPT !.cache = CleanupCache(stored)]

\* time.sleep(d)
Sleep(st, d) == [st EXCEPT !.now = @ + d]

\* SpotifyConnector._handle_rate_limit
HandleRateLimit(st) ==
  LET current_time == st.now
      s1 == IF current_time - st.window_start > WindowSize
            THEN [st EXCEPT !.window_start = current_time, !.request_count = 0]
            ELSE st
      sleep_time == WindowSize - (current_time - s1.window_start)
      s2 == IF s1.request_count >= RequestLimit /\ sleep_time > 0
            THEN [s1 EXCEPT !.now = @ + sleep_time,
                            !.window_start = s1.now + sleep_time,
                            !.request_count = 0]
            ELSE s1
      time_since_last == current_time - s2.last_request_time
      s3 == IF time_since_last < MinRequestInterval
            THEN Sleep(s2, MinRequestInterval - time_since_last)
            ELSE s2
  IN  IF s1.request_count * 10 < RequestLimit * 8
      THEN [s1 EXCEPT !.request_count = @ + 1]
      ELSE [s3 EXCEPT !.last_request_time = s3.now, !.request_count = @ + 1]

(***************************************************************************)
(* SpotifyConnector.search_artist, one step per provider request.  A call  *)
(* in progress is a record [status, name, exact, phase, attempt, parts]:   *)
(* phase "own" is the retry loop of the call itself, "primary" and         *)
(* "longest" are the nested exact searches of _process_complex_artist_name.*)
(* A search result is a sequence of artists; None is the empty sequence    *)
(* (search_artist never returns an empty list).                            *)
(***************************************************************************)

NoCall == [status |-> "idle"]

Pending(name, exact, phase, attempt, parts) ==
  [status |-> "pending", name |-> name, exact |-> exact, phase |-> phase,
   attempt |-> attempt, parts |-> parts]

Returned(result) == [status |-> "returned", result |-> result]

Raised == [status |-> "raised"]

\* any(sep in search_name for sep in [...])
IsComplexName(search_name) ==
  \E i \in 1..Len(Separators) : Contains(search_name, Separators[i])

RECURSIVE ReplaceSeparators(_, _)
ReplaceSeparators(s, i) ==
  IF i > Len(Separators) THEN s
  ELSE ReplaceSeparators(ReplaceAll(s, Separators[i], <<"|">>), i + 1)

RECURSIVE StripNonEmpty(_)
StripNonEmpty(pieces) ==
  IF pieces = <<>> THEN <<>>
  ELSE IF Strip(Head(pieces)) # <<>>
       THEN <<Strip(Head(pieces))>> \o StripNonEmpty(Tail(pieces))
       ELSE StripNonEmpty(Tail(pieces))

\* _process_complex_artist_name: artists = [a.strip() for a in parts.split('|') if a.strip()]
ComplexParts(artist_name) ==
  StripNonEmpty(SplitOn(ReplaceSeparators(artist_name, 1), "|"))

\* max(artists, key=len): the first of the longest
LongestName(parts) ==
  parts[CHOOSE i \in 1..Len(parts) :
          /\ \A j \in 1..Len(parts) : Len(parts[j]) <= Len(parts[i])
          /\ \A j \in 1..(i - 1) : Len(parts[j]) < Len(parts[i])]

\* the artist_name and exact_match of the search_artist frame that is issuing requests
FrameName(call) ==
  CASE call.phase = "own" -> call.name
    [] call.phase = "primary" -> call.parts[1]
    [] call.phase = "longest" -> LongestName(call.parts)

FrameExact(call) == IF call.phase = "own" THEN call.exact ELSE TRUE

\* search_artist lines 334-350: the artists kept from the items of a response
RECURSIVE CollectArtists(_, _, _)
CollectArtists(items, exact_match, normalized_search) ==
  IF items = <<>> THEN <<>>
  ELSE LET artist_info == CreateArtistInfo(Head(items))
           rest == CollectArtists(Tail(items), exact_match, normalized_search)
       IN  IF artist_info = NoArtist THEN rest
           ELSE IF exact_match
                THEN IF NormalizeArtistName(artist_info.name) = normalized_search
                     THEN <<artist_info>> \o rest
                     ELSE rest
                ELSE <<artist_info>> \o rest

\* search_artist lines 317-320 after _process_complex_artist_name returned r
ComplexDone(call, r, st) ==
  IF r # <<>>
  THEN [call |-> Returned(r), st |-> UpdateCache(st, CacheKey(call.name, call.exact), r)]
  ELSE [call |-> Pending(call.name, call.exact, "own", 0, call.parts), st |-> st]

\* the frame that was issuing requests returned r: run on to the next request
\* or to the return of the outer call
AfterFrame(call, r, st) ==
  CASE call.phase = "own" -> [call |-> Returned(r), st |-> st]
    [] call.phase = "longest" -> ComplexDone(call, r, st)
    [] call.phase = "primary" ->
         IF r # <<>> THEN ComplexDone(call, r, st)
         ELSE IF LongestName(call.parts) # call.parts[1]
              THEN LET c == CheckCache(st, CacheKey(LongestName(call.parts), TRUE))
                   IN  IF c.hit THEN ComplexDone(call, c.data, c.st)
                       ELSE [call |-> Pending(call.name, call.exact, "longest", 0, call.parts),
                             st |-> c.st]
              ELSE ComplexDone(call, <<>>, st)

\* search_artist up to its first provider request
BeginSearch(artist_name, exact_match, st) ==
  IF artist_name = <<>> THEN [call |-> Returned(<<>>), st |-> st]
  ELSE LET c == CheckCache(st, CacheKey(artist_name, exact_match))
           search_name == Strip(artist_name)
           parts == ComplexParts(search_name)
           own == Pending(artist_name, exact_match, "own", 0, <<>>)
       IN  IF c.hit THEN [call |-> Returned(c.data), st |-> c.st]
           ELSE IF IsComplexName(search_name) /\ parts # <<>>
                THEN LET p == CheckCache(c.st, CacheKey(parts[1], TRUE))
                         primary == Pending(artist_name, exact_match, "primary", 0, parts)
                     IN  IF p.hit THEN AfterFrame(primary, p.data, p.st)
                         ELSE [call |-> primary, st |-> p.st]
                ELSE [call |-> own, st |-> c.st]

\* RequestStep that gives up at the first rate-limit response
RequestStepGivesUpWhenRateLimited(call, resp, latency, st) ==
  LET s0 == IF call.attempt > 0 THEN Sleep(st, RetryDelay) ELSE st
      s1 == Sleep(HandleRateLimit(s0), latency)
      artists == CollectArtists(resp.items, FrameExact(call),
                                NormalizeArtistName(Strip(FrameName(call))))
      retry == [call |-> [call EXCEPT !.attempt = @ + 1], st |-> s1]
  IN  CASE resp.kind = "ok" ->
             IF artists # <<>>
             THEN AfterFrame(call, artists,
                             UpdateCache(s1, CacheKey(FrameName(call), FrameExact(call)), artists))
             ELSE AfterFrame(call, <<>>, s1)
        [] resp.kind = "invalid" -> AfterFrame(call, <<>>, s1)
        [] resp.kind = "rate_limited" ->
             AfterFrame(call, <<>>, Sleep(s1, RetryAfter))
        [] resp.kind = "rate_limited_no_headers" -> [call |-> Raised, st |-> s1]
        [] resp.kind = "error" ->
             IF call.attempt = MaxRetries - 1
             THEN AfterFrame(call, <<>>, s1)
             ELSE retry

\* one pass of the retry loop of search_artist (lines 322-371) with the
\* provider's answer resp after latency seconds
RequestStep(call, resp, latency, st) ==
  LET s0 == IF call.attempt > 0 THEN Sleep(st, RetryDelay) ELSE st
      s1 == Sleep(HandleRateLimit(s0), latency)
      artists == CollectArtists(resp.items, FrameExact(call),
                                NormalizeArtistName(Strip(FrameName(call))))
      retry == [call |-> [call EXCEPT !.attempt = @ + 1], st |-> s1]
  IN  CASE resp.kind = "ok" ->
             IF artists # <<>>
             THEN AfterFrame(call, artists,
                             UpdateCache(s1, CacheKey(FrameName(call), FrameExact(call)), artists))
             ELSE AfterFrame(call, <<>>, s1)
        [] resp.kind = "invalid" -> AfterFrame(call, <<>>, s1)
        [] resp.kind = "rate_limited" ->
             IF call.attempt + 1 < MaxRetries
             THEN [call |-> [call EXCEPT !.attempt = @ + 1], st |-> Sleep(s1, RetryAfter)]
             ELSE AfterFrame(call, <<>>, Sleep(s1, RetryAfter))
        [] resp.kind = "rate_limited_no_headers" -> [call |-> Raised, st |-> s1]
        [] resp.kind = "error" ->
             IF call.attempt = MaxRetries - 1
             THEN AfterFrame(call, <<>>, s1)
             ELSE retry

(***************************************************************************)
(* ArtistMatcher                                                           *)
(***************************************************************************)

\* GetArtistMetadataStatus with has_followers read from popularity
MetadataStatusFollowersFromPopularity(artist) ==
  [has_genres |-> Len(artist.genres) > 0,
   has_images |-> Len(artist.images) > 0,
   has_popularity |-> artist.popularity > 0,
   has_followers |-> artist.popularity > 0]

\* SpotifyConnector.get_artist_metadata_status
GetArtistMetadataStatus(artist) ==
  [has_genres |-> Len(artist.genres) > 0,
   has_images |-> Len(artist.images) > 0,
   has_popularity |-> artist.popularity > 0,
   has_followers |-> artist.followers > 0]

\* sum(1 for v in metadata_status.values() if v)
CountPresent(metadata_status) ==
  Cardinality({f \in DOMAIN metadata_status : metadata_status[f]})

\* ClampConfidence without the upper bound
ClampLowerOnly(final_confidence) == FracMax(final_confidence, Zero)

\* min(max(final_confidence, 0.0), 1.0)
ClampConfidence(final_confidence) == FracMin(FracMax(final_confidence, Zero), One)

\* the two additive factors of _calculate_match_confidence (weights 0.1 and 0.1)
PopularityFactor(spotify_artist) == Frac(spotify_artist.popularity, 1000)

MetadataFactor(spotify_artist) ==
  Frac(CountPresent(GetArtistMetadataStatus(spotify_artist)), 40)

\* ArtistMatcher._calculate_match_confidence
CalculateMatchConfidence(plex_artist, spotify_artist) ==
  LET score == CalculateSimilarityScore(plex_artist.title, spotify_artist.name)
      final_confidence ==
        FracAdd(score.similarity,
                FracAdd(PopularityFactor(spotify_artist), MetadataFactor(spotify_artist)))
  IN  IF score.is_exact THEN One ELSE ClampConfidence(final_confidence)

\* the Python slice s[a:b]
Slice(s, a, b) == SubSeq(s, a + 1, IF b < Len(s) THEN b ELSE Len(s))

\* scored_matches.sort(key=lambda x: x[1], reverse=True): stable, best first
RECURSIVE InsertByConfidenceDesc(_, _)
InsertByConfidenceDesc(sorted, m) ==
  IF sorted = <<>> THEN <<m>>
  ELSE IF FracLE(m.confidence, Head(sorted).confidence)
       THEN <<Head(sorted)>> \o InsertByConfidenceDesc(Tail(sorted), m)
       ELSE <<m>> \o sorted

\* SortByConfidenceDesc that leaves the list in the provider's order
SortByConfidenceDescKeepsOrder(scored) == scored

RECURSIVE SortByConfidenceDesc(_)
SortByConfidenceDesc(scored) ==
  IF scored = <<>> THEN <<>>
  ELSE InsertByConfidenceDesc(SortByConfidenceDesc(SubSeq(scored, 1, Len(scored) - 1)),
                              scored[Len(scored)])

\* _process_single_artist, lines 118-130: the result of a non-empty exact search
ExactMatchResult(artist, exact_results) ==
  [plex_artist |-> artist,
   spotify_match |-> exact_results[1],
   confidence |-> One,
   needs_review |-> FALSE,
   alternative_matches |-> IF Len(exact_results) > 1
                           THEN Slice(exact_results, 1, MaxAlternatives)
                           ELSE <<>>,
   match_type |-> "exact"]

\* _process_single_artist, lines 135-168: the result after the regular search
FuzzyMatchResult(artist, search_results) ==
  IF search_results = <<>>
  THEN [plex_artist |-> artist, spotify_match |-> NoArtist, confidence |-> Zero,
        needs_review |-> FALSE, alternative_matches |-> <<>>, match_type |-> "none"]
  ELSE LET scored == [i \in 1..Len(search_results) |->
                        [artist |-> search_results[i],
                         confidence |-> CalculateMatchConfidence(artist, search_results[i])]]
           sorted == SortByConfidenceDesc(scored)
           rest == Slice(sorted, 1, MaxAlternatives)
       IN  [plex_artist |-> artist,
            spotify_match |-> sorted[1].artist,
            confidence |-> sorted[1].confidence,
            needs_review |-> FracLT(sorted[1].confidence, AutoMatchThreshold),
            alternative_matches |-> [i \in 1..Len(rest) |-> rest[i].artist],
            match_type |-> "fuzzy"]

\* BucketOf without the test of spotify_match
BucketOfIgnoresMissing(match_result) ==
  IF FracLE(MinConfidence, match_result.confidence) THEN "matched" ELSE "needs_review"

\* process_unmatched_artists, lines 83-90 and 93-99: the bucket of a result
BucketOf(match_result) ==
  IF match_result.spotify_match # NoArtist
  THEN IF FracLE(MinConfidence, match_result.confidence) THEN "matched" ELSE "needs_review"
  ELSE "no_matches"

\* AppendResult that puts the new entry first
AppendResultInFront(res, bucket, match_result) ==
  IF bucket = "no_matches"
  THEN [res EXCEPT !.no_matches = <<match_result.plex_artist>> \o @]
  ELSE [res EXCEPT ![bucket] = <<match_result>> \o @]

\* results[bucket].append(...): no_matches holds the artist, the others the result
AppendResult(res, bucket, match_result) ==
  IF bucket = "no_matches"
  THEN [res EXCEPT !.no_matches = Append(@, match_result.plex_artist)]
  ELSE [res EXCEPT ![bucket] = Append(@, match_result)]

(***************************************************************************)
(* State                                                                   *)
(***************************************************************************)

VARIABLES
  artists,       \* the batch given to process_unmatched_artists
  idx,           \* position of the for loop in artists (1-based)
  results,       \* the three buckets of process_unmatched_artists
  pc,            \* where process_unmatched_artists stands
  start_time,    \* start_time of the current iteration
  match_result,  \* the MatchResult of the current iteration, once computed
  call,          \* the search_artist call in progress
  latency,       \* how long the provider takes per request while this artist is processed
  failures,      \* provider requests and file writes so far that failed
  raised_idx,    \* history: the positions of the artists whose processing raised
  fn_in,         \* the arguments of a function applied on its own
  fn_out,        \* its result
  spotify,       \* SpotifyConnector's cache and rate limiter, and the clock (now)
  decisions,     \* MatchReviewer.decisions: the (key, decision) items in insertion order
  review_files,  \* the .json files of results/reviews
  rpc,           \* where the review session stands
  ridx,          \* position of _review_uncertain_matches in its list (1-based)
  manual,        \* the artist and the search term of the _manual_search in progress
  inputs,        \* how many prompts the operator has answered
  loaded_from,   \* the file the session was resumed from (NotLoaded: none)
  recorded,      \* history: the decisions recorded into the ledger, oldest first
  written,       \* history: for each file written in full, the ledger it was written from
  hist,          \* history: the operator's last answer and what the session did on it
  loop,          \* the loop over items the session is in: its kind, its items, its start_idx
  updater        \* PlexArtistUpdater: the decisions it applies, its place in them, its stats

\* MatchReviewer and its directory
reviewer ==
  <<decisions, review_files, rpc, ridx, manual, inputs, loaded_from, recorded, written,
    hist, loop>>

vars ==
  <<artists, idx, results, pc, start_time, match_result, call, latency, failures,
    raised_idx, fn_in, fn_out, spotify, reviewer, updater>>

\* the variables outside process_unmatched_artists and the connector
others == <<fn_in, fn_out, reviewer, updater>>

\* time.time() when the connector is constructed
Epoch == 1000

NoResult == [match_type |-> "unset"]

Unset == [unset |-> TRUE]

\* SpotifyConnector.__init__
InitSpotify ==
  [cache |-> <<>>, request_count |-> 0, window_start |-> Epoch,
   last_request_time |-> 0, now |-> Epoch]

EmptyResults == [matched |-> <<>>, needs_review |-> <<>>, no_matches |-> <<>>]

\* no file chosen in load_previous_session
NotLoaded == -1

NoManual == [active |-> FALSE]

\* the session is in its menu loop, in none of the loops over items
NoLoop == [kind |-> "none", items |-> <<>>, start_idx |-> 0]

\* history of a session in which nothing was answered yet: answer is the operator's last
\* answer, save_offered whether it was to 'Save progress before exiting?', calls the number
\* of _add_decision calls, item_decisions those of them made for the item under review,
\* auto_saved whether the last call made _auto_save write
NoHistory ==
  [answer |-> "none", save_offered |-> FALSE, calls |-> 0, item_decisions |-> 0,
   auto_saved |-> FALSE]

\* no PlexArtistUpdater exists yet
NoUpdater == [state |-> "none"]

\* no MatchReviewer exists yet
NoReviewer ==
  /\ decisions = <<>>
  /\ review_files = {}
  /\ rpc = "idle"
  /\ ridx = 0
  /\ manual = NoManual
  /\ inputs = 0
  /\ loaded_from = NotLoaded
  /\ recorded = <<>>
  /\ written = {}
  /\ hist = NoHistory
  /\ loop = NoLoop

\* process_unmatched_artists is entered with a batch of distinct library artists
Init ==
  /\ artists \in DistinctSeqs(Library, MaxArtists)
  /\ idx = 1
  /\ results = EmptyResults
  /\ pc = "iterate"
  /\ start_time = 0
  /\ match_result = NoResult
  /\ call = NoCall
  /\ latency = 0
  /\ failures = 0
  /\ raised_idx = {}
  /\ fn_in = Unset
  /\ fn_out = Unset
  /\ spotify = InitSpotify
  /\ updater = NoUpdater
  /\ NoReviewer

(***************************************************************************)
(* process_unmatched_artists, step by step                                 *)
(***************************************************************************)

\* lines 70-73: the next artist; _process_single_artist starts the exact search
NextArtist ==
  /\ pc = "iterate"
  /\ idx <= Len(artists)
  /\ LET r == BeginSearch(artists[idx].title, TRUE, spotify)
     IN  /\ call' = r.call
         /\ spotify' = r.st
  /\ start_time' = spotify.now
  /\ latency' \in Latencies
  /\ pc' = "exact"
  /\ UNCHANGED <<artists, idx, results, match_result, failures, raised_idx, others>>

\* one provider request of the search in progress
SearchRequest ==
  /\ pc \in {"exact", "fuzzy"}
  /\ call.status = "pending"
  /\ \E resp \in ProviderResponses :
       LET r == RequestStep(call, resp, latency, spotify)
       IN  /\ resp.kind # "ok" => failures < MaxFailures
           /\ failures' = IF resp.kind = "ok" THEN failures ELSE failures + 1
           /\ call' = r.call
           /\ spotify' = r.st
  /\ UNCHANGED <<artists, idx, results, pc, start_time, match_result, latency, raised_idx, others>>

\* lines 116-133: the exact search returned
ExactReturned ==
  /\ pc = "exact"
  /\ call.status = "returned"
  /\ IF call.result # <<>>
     THEN /\ match_result' = ExactMatchResult(artists[idx], call.result)
          /\ call' = NoCall
          /\ pc' = "classify"
          /\ UNCHANGED spotify
     ELSE LET r == BeginSearch(artists[idx].title, FALSE, spotify)
          IN  /\ call' = r.call
              /\ spotify' = r.st
              /\ pc' = "fuzzy"
              /\ UNCHANGED match_result
  /\ UNCHANGED <<artists, idx, results, start_time, latency, failures, raised_idx, others>>

\* lines 133-168: the regular search returned
FuzzyReturned ==
  /\ pc = "fuzzy"
  /\ call.status = "returned"
  /\ match_result' = FuzzyMatchResult(artists[idx], call.result)
  /\ call' = NoCall
  /\ pc' = "classify"
  /\ UNCHANGED <<artists, idx, results, start_time, latency, failures, raised_idx, others, spotify>>

\* Classify with the continue of line 91 missing: a timed-out result is
\* appended by the timeout branch and again by lines 93-99
ClassifyWithoutContinue ==
  /\ pc = "classify"
  /\ results' = IF spotify.now - start_time > TimeoutThreshold
                THEN AppendResult(AppendResult(results, BucketOf(match_result), match_result),
                                  BucketOf(match_result), match_result)
                ELSE AppendResult(results, BucketOf(match_result), match_result)
  /\ spotify' = Sleep(spotify, ArtistDelay)
  /\ idx' = idx + 1
  /\ match_result' = NoResult
  /\ pc' = "iterate"
  /\ UNCHANGED <<artists, start_time, call, latency, failures, raised_idx, others>>

\* lines 74-102: the timeout check, the bucket, the delay before the next artist
Classify ==
  /\ pc = "classify"
  /\ results' = AppendResult(results, BucketOf(match_result), match_result)
  /\ spotify' = IF spotify.now - start_time > TimeoutThreshold
                THEN spotify
                ELSE Sleep(spotify, ArtistDelay)
  /\ idx' = idx + 1
  /\ match_result' = NoResult
  /\ pc' = "iterate"
  /\ UNCHANGED <<artists, start_time, call, latency, failures, raised_idx, others>>

\* CatchException without the handler of lines 104-106: the exception leaves
\* process_unmatched_artists
CatchExceptionAborts ==
  /\ pc \in {"exact", "fuzzy"}
  /\ call.status = "raised"
  /\ call' = NoCall
  /\ pc' = "raised"
  /\ raised_idx' = raised_idx \cup {idx}
  /\ UNCHANGED <<artists, idx, results, start_time, match_result, latency, failures, others,
                 spotify>>

\* lines 104-106: an exception of _process_single_artist is caught
CatchException ==
  /\ pc \in {"exact", "fuzzy"}
  /\ call.status = "raised"
  /\ results' = [results EXCEPT !.no_matches = Append(@, artists[idx])]
  /\ idx' = idx + 1
  /\ call' = NoCall
  /\ pc' = "iterate"
  /\ raised_idx' = raised_idx \cup {idx}
  /\ UNCHANGED <<artists, start_time, match_result, latency, failures, others, spotify>>

\* lines 110-111 and 214-220: the summary divides by total, then the buckets are returned
LogResultsSummary ==
  /\ pc = "iterate"
  /\ idx > Len(artists)
  /\ pc' = IF Len(artists) = 0 THEN "raised" ELSE "returned"
  /\ UNCHANGED <<artists, idx, results, start_time, match_result, call, latency, failures,
                 raised_idx, others, spotify>>

Next ==
  \/ NextArtist
  \/ SearchRequest
  \/ ExactReturned
  \/ FuzzyReturned
  \/ Classify
  \/ CatchException
  \/ LogResultsSummary

Spec == Init /\ [][Next]_vars

(***************************************************************************)
(* _calculate_match_confidence applied on its own                          *)
(***************************************************************************)

\* titles and candidate names the confidence is computed for
ConfidenceNames ==
  { <<"a", "b">>, <<"A", "b">>, <<"a">>, <<"b", "a">>, <<"a", "b", "c", "d">>,
    <<"a", "b", "c", "d", "x">>, <<"a", " ", "(", "x", ")">>, <<"!">> }

ConfidenceCandidates ==
  { [id |-> "s", name |-> nm, genres |-> g, popularity |-> p, followers |-> f,
     images |-> im, spotify_url |-> "u", bio |-> "None"] :
      nm \in ConfidenceNames, g \in {<<>>, <<"rock">>}, p \in {0, 1, 50, 100},
      f \in {0, 7}, im \in {<<>>, <<"i1">>} }

InitConfidence ==
  /\ artists = <<>>
  /\ idx = 1
  /\ results = EmptyResults
  /\ pc = "confidence"
  /\ start_time = 0
  /\ match_result = NoResult
  /\ call = NoCall
  /\ latency = 0
  /\ failures = 0
  /\ raised_idx = {}
  /\ fn_in \in [plex_artist : {[rating_key |-> "k1", title |-> t] : t \in ConfidenceNames},
               spotify_artist : ConfidenceCandidates]
  /\ fn_out = Unset
  /\ spotify = InitSpotify
  /\ updater = NoUpdater
  /\ NoReviewer

ApplyConfidence ==
  /\ pc = "confidence"
  /\ fn_out = Unset
  /\ fn_out' = CalculateMatchConfidence(fn_in.plex_artist, fn_in.spotify_artist)
  /\ UNCHANGED <<artists, idx, results, pc, start_time, match_result, call, latency, failures,
                 raised_idx, fn_in, spotify, reviewer, updater>>

NextConfidence == ApplyConfidence

SpecConfidence == InitConfidence /\ [][NextConfidence]_vars

(***************************************************************************)
(* _normalize_artist_name and _calculate_similarity_score on their own     *)
(***************************************************************************)

\* longest name handed to _normalize_artist_name
MaxNameLen == 4

\* the two names a caller holds: name1 is any string of letters, digits, blanks, brackets
\* and punctuation, name2 one of a few names to compare it with
InitNames ==
  /\ artists = <<>>
  /\ idx = 1
  /\ results = EmptyResults
  /\ pc = "names"
  /\ start_time = 0
  /\ match_result = NoResult
  /\ call = NoCall
  /\ latency = 0
  /\ failures = 0
  /\ raised_idx = {}
  /\ \E n \in 0..MaxNameLen :
       fn_in \in [name1 : [1..n -> {"a", "A", "1", " ", "(", ")", "[", "]", "-", ".", "/",
                                    "_"}],
                  name2 : {<<>>, <<"a">>, <<"a", "1">>, <<"1", " ", "a">>}]
  /\ fn_out = Unset
  /\ spotify = InitSpotify
  /\ updater = NoUpdater
  /\ NoReviewer

\* _normalize_artist_name(name1), and the same applied to what it returned
ApplyNormalize ==
  /\ pc = "names"
  /\ pc' = "normalized"
  /\ fn_out' = [normalized |-> NormalizeArtistName(fn_in.name1),
                again |-> NormalizeArtistName(NormalizeArtistName(fn_in.name1))]
  /\ UNCHANGED <<artists, idx, results, start_time, match_result, call, latency, failures,
                 raised_idx, fn_in, spotify, reviewer, updater>>

\* _calculate_similarity_score(name1, name2)
ApplySimilarity ==
  /\ pc = "names"
  /\ pc' = "scored"
  /\ fn_out' = CalculateSimilarityScore(fn_in.name1, fn_in.name2)
  /\ UNCHANGED <<artists, idx, results, start_time, match_result, call, latency, failures,
                 raised_idx, fn_in, spotify, reviewer, updater>>

NextNames ==
  \/ ApplyNormalize
  \/ ApplySimilarity

SpecNames == InitNames /\ [][NextNames]_vars

(***************************************************************************)
(* _process_single_artist on the lists its two searches returned           *)
(***************************************************************************)

\* longest list a search returns to _process_single_artist
MaxCandidates == 4

\* the artist and what search_artist(title, exact_match=True) and search_artist(title)
\* returned for it. The exact search returns artists whose normalized name is the
\* title's ('ab'); the regular search returns any artists: one of that name, 'abc' with
\* and without metadata, and two named 'a' whose popularity and metadata differ
InitRanking ==
  /\ artists = <<>>
  /\ idx = 1
  /\ results = EmptyResults
  /\ pc = "ranking"
  /\ start_time = 0
  /\ match_result = NoResult
  /\ call = NoCall
  /\ latency = 0
  /\ failures = 0
  /\ raised_idx = {}
  /\ LET info(id, name, popularity, genres, images, followers) ==
           [id |-> id, name |-> name, genres |-> genres, popularity |-> popularity,
            followers |-> followers, images |-> images, spotify_url |-> "u", bio |-> "None"]
         exact == { info("e1", <<"a", "b">>, 50, <<"rock">>, <<"i1">>, 7),
                    info("e2", <<"A", "b">>, 80, <<"pop">>, <<"i2">>, 9),
                    info("e3", <<"a", "b", "(", "x", ")">>, 0, <<>>, <<>>, 0) }
         regular == { info("e1", <<"a", "b">>, 50, <<"rock">>, <<"i1">>, 7),
                      info("n1", <<"a", "b", "c">>, 100, <<"rock">>, <<"i1">>, 7),
                      info("n2", <<"a", "b", "c">>, 0, <<>>, <<>>, 0),
                      info("n3", <<"a">>, 25, <<"rock">>, <<"i1">>, 0),
                      info("n4", <<"a">>, 50, <<"rock">>, <<>>, 0) }
     IN  \E artist \in Library :
           \/ \E found \in DistinctSeqs(exact, MaxCandidates) :
                /\ found # <<>>
                /\ fn_in = [artist |-> artist, exact_results |-> found,
                            search_results |-> <<>>]
           \/ \E found \in DistinctSeqs(regular, MaxCandidates) :
                fn_in = [artist |-> artist, exact_results |-> <<>>,
                         search_results |-> found]
  /\ fn_out = Unset
  /\ spotify = InitSpotify
  /\ updater = NoUpdater
  /\ NoReviewer

\* _process_single_artist, lines 118-168, once both searches have returned
ProcessSingleArtist ==
  /\ pc = "ranking"
  /\ pc' = "ranked"
  /\ fn_out' = IF fn_in.exact_results # <<>>
               THEN ExactMatchResult(fn_in.artist, fn_in.exact_results)
               ELSE FuzzyMatchResult(fn_in.artist, fn_in.search_results)
  /\ UNCHANGED <<artists, idx, results, start_time, match_result, call, latency, failures,
                 raised_idx, fn_in, spotify, reviewer, updater>>

NextRanking == ProcessSingleArtist

SpecRanking == InitRanking /\ [][NextRanking]_vars

(***************************************************************************)
(* SpotifyConnector: searches of one connector over hours                  *)
(***************************************************************************)

\* search_artist calls made to one connector
MaxSearches == 4

\* a connector right after its construction; fn_in is the search in progress or returned
\* last: its arguments, whether its cache entry was there but expired when it began,
\* whether it was there and younger than cache_timeout, the provider requests made for
\* it, and, as history of the connector, the searches begun and the entries
\* _cleanup_cache dropped
InitCache ==
  /\ artists = <<>>
  /\ idx = 1
  /\ results = EmptyResults
  /\ pc = "connector"
  /\ start_time = 0
  /\ match_result = NoResult
  /\ call = NoCall
  /\ latency \in Latencies
  /\ failures = 0
  /\ raised_idx = {}
  /\ fn_in = [name |-> <<>>, exact_match |-> FALSE, expired |-> FALSE, fresh |-> FALSE,
              requests |-> 0, searches |-> 0, dropped |-> 0]
  /\ fn_out = Unset
  /\ spotify = InitSpotify
  /\ updater = NoUpdater
  /\ NoReviewer

\* the entries of cache that _cleanup_cache dropped on the way to state st: those whose key
\* is gone although they were not expired
Dropped(cache, st) ==
  Cardinality({ i \in 1..Len(cache) :
                  /\ ~HasKey(st.cache, cache[i].key)
                  /\ st.now - cache[i].time < CacheTimeout })

\* a caller calls search_artist, at once or an hour after the search before
SearchArtist ==
  /\ pc = "connector"
  /\ call.status # "pending"
  /\ fn_in.searches < MaxSearches
  /\ \E artist_name \in { <<"a">>, <<"a", "&", "b">> }, exact_match \in BOOLEAN,
        wait \in {0, CacheTimeout} :
       LET st == Sleep(spotify, wait)
           cache_key == CacheKey(artist_name, exact_match)
           r == BeginSearch(artist_name, exact_match, st)
       IN  /\ call' = r.call
           /\ spotify' = r.st
           /\ fn_in' = [name |-> artist_name, exact_match |-> exact_match,
                        expired |-> HasKey(st.cache, cache_key) /\ ~CheckCache(st, cache_key).hit,
                        fresh |-> /\ HasKey(st.cache, cache_key)
                                  /\ st.now - st.cache[IndexOfKey(st.cache, cache_key)].time
                                       < CacheTimeout,
                        requests |-> 0,
                        searches |-> fn_in.searches + 1,
                        dropped |-> fn_in.dropped + Dropped(spotify.cache, r.st)]
  /\ UNCHANGED <<artists, idx, results, pc, start_time, match_result, latency, failures,
                 raised_idx, fn_out, reviewer, updater>>

\* one provider request of the search in progress
SearchArtistRequest ==
  /\ pc = "connector"
  /\ call.status = "pending"
  /\ \E resp \in { p \in ProviderResponses :
                       /\ p.kind \in {"ok", "error", "rate_limited_no_headers"}
                       /\ \A i \in 1..Len(p.items) : p.items[i].id = "s3" } :
       LET r == RequestStep(call, resp, latency, spotify)
       IN  /\ resp.kind # "ok" => failures < MaxFailures
           /\ failures' = IF resp.kind = "ok" THEN failures ELSE failures + 1
           /\ call' = r.call
           /\ spotify' = r.st
           /\ fn_in' = [fn_in EXCEPT !.requests = @ + 1,
                                     !.dropped = @ + Dropped(spotify.cache, r.st)]
  /\ UNCHANGED <<artists, idx, results, pc, start_time, match_result, latency, raised_idx,
                 fn_out, reviewer, updater>>

NextCache ==
  \/ SearchArtist
  \/ SearchArtistRequest

SpecCache == InitCache /\ [][NextCache]_vars

(***************************************************************************)
(* SpotifyConnector.search_artist: one call, attempt by attempt            *)
(***************************************************************************)

\* a connector right after its construction; fn_in will hold the arguments of the call,
\* the kind of the provider's last answer and the queries sent so far
InitSearch ==
  /\ artists = <<>>
  /\ idx = 1
  /\ results = EmptyResults
  /\ pc = "search_artist"
  /\ start_time = 0
  /\ match_result = NoResult
  /\ call = NoCall
  /\ latency = 0
  /\ failures = 0
  /\ raised_idx = {}
  /\ fn_in = Unset
  /\ fn_out = Unset
  /\ spotify = InitSpotify
  /\ updater = NoUpdater
  /\ NoReviewer

\* search_artist is called with a plain name, a padded one or one with separators ('sand'
\* holds 'and'): lines 299-320 up to the first provider request
SearchArtistCalled ==
  /\ pc = "search_artist"
  /\ \E artist_name \in { <<"a">>, <<" ", "a", "b", " ">>, <<"a", "&", "b", "c">>,
                           <<"s", "a", "n", "d">>, <<"a", " ", "a", "n", "d", " ", "b">>,
                           <<"&">>, <<"b", "c", "+", "a", ",", "a", "b">> },
        exact_match \in BOOLEAN :
       LET r == BeginSearch(artist_name, exact_match, spotify)
       IN  /\ call' = r.call
           /\ spotify' = r.st
           /\ fn_in' = [name |-> artist_name, exact_match |-> exact_match, last |-> "none",
                        queries |-> <<>>]
           /\ pc' = IF r.call.status = "pending" THEN "searching" ELSE "searched"
  /\ UNCHANGED <<artists, idx, results, start_time, match_result, latency, failures,
                 raised_idx, fn_out, reviewer, updater>>

\* one pass of the retry loop, lines 322-371: the provider answers with a response, with
\* a 429 that carries Retry-After, or with another error (spotipy gives every
\* SpotifyException a headers mapping)
SearchArtistAttempt ==
  /\ pc = "searching"
  /\ call.status = "pending"
  /\ \E resp \in { p \in ProviderResponses : p.kind # "rate_limited_no_headers" } :
       LET r == RequestStep(call, resp, latency, spotify)
       IN  /\ call' = r.call
           /\ spotify' = r.st
           /\ fn_in' = [fn_in EXCEPT !.last = resp.kind,
                                     !.queries = Append(@, Strip(FrameName(call)))]
           /\ pc' = IF r.call.status = "pending" THEN "searching" ELSE "searched"
  /\ UNCHANGED <<artists, idx, results, start_time, match_result, latency, failures,
                 raised_idx, fn_out, reviewer, updater>>

NextSearch ==
  \/ SearchArtistCalled
  \/ SearchArtistAttempt

SpecSearch == InitSearch /\ [][NextSearch]_vars

(***************************************************************************)
(* SpotifyConnector._handle_rate_limit called at any times                 *)
(***************************************************************************)

\* calls of _handle_rate_limit made to one connector
MaxCalls == 22

\* a connector right after its construction; fn_in counts the calls and the requests
\* admitted since window_start was last set
InitLimiter ==
  /\ artists = <<>>
  /\ idx = 1
  /\ results = EmptyResults
  /\ pc = "limiter"
  /\ start_time = 0
  /\ match_result = NoResult
  /\ call = NoCall
  /\ latency = 0
  /\ failures = 0
  /\ raised_idx = {}
  /\ fn_in = [calls |-> 0, admitted |-> 0]
  /\ fn_out = Unset
  /\ spotify = InitSpotify
  /\ updater = NoUpdater
  /\ NoReviewer

\* a request is about to be sent: at once, a tenth of a second later, at the moment the
\* window ends or just after it; fn_out is the connector as the call found it
HandleRateLimitCalled ==
  /\ pc = "limiter"
  /\ fn_in.calls < MaxCalls
  /\ \E t \in { spotify.now, spotify.now + 1, spotify.window_start + WindowSize,
                spotify.window_start + WindowSize + 1 } :
       /\ t >= spotify.now
       /\ fn_out' = [spotify EXCEPT !.now = t]
       /\ spotify' = HandleRateLimit(fn_out')
       /\ fn_in' = [calls |-> fn_in.calls + 1,
                    admitted |-> IF spotify'.window_start # spotify.window_start THEN 1
                                 ELSE fn_in.admitted + 1]
  /\ UNCHANGED <<artists, idx, results, pc, start_time, match_result, call, latency, failures,
                 raised_idx, reviewer, updater>>

NextLimiter == HandleRateLimitCalled

SpecLimiter == InitLimiter /\ [][NextLimiter]_vars

(***************************************************************************)
(* MatchReviewer: the decision ledger and its files                        *)
(***************************************************************************)

\* _auto_save: len(self.decisions) % 10
AutoSaveEvery == 10

\* load_previous_session lists review_files[:5]
SessionsShown == 5

\* _batch_review_matches(matches, batch_size=5)
BatchSize == 5

\* tenths of a second per second of strftime("%Y%m%d_%H%M%S")
TicksPerSecond == 10

\* key in self.decisions
HasDecision(ledger, key) == \E i \in 1..Len(ledger) : ledger[i].key = key

\* DictSet that appends an item even when the key is present
DictSetAppends(ledger, key, decision) ==
  Append(ledger, [key |-> key, decision |-> decision])

\* self.decisions[key] = decision: a present key keeps its place and gets the new value
DictSet(ledger, key, decision) ==
  IF HasDecision(ledger, key)
  THEN [i \in 1..Len(ledger) |->
          IF ledger[i].key = key THEN [key |-> key, decision |-> decision] ELSE ledger[i]]
  ELSE Append(ledger, [key |-> key, decision |-> decision])

\* decision['timestamp'] = datetime.now().isoformat()
Stamp(decision, now) == ("timestamp" :> now) @@ decision

\* _accept_match: the decision dict
AcceptPrimaryDecision(match) ==
  [action |-> "accept_primary", plex_artist |-> match.plex_artist.title,
   spotify_id |-> match.spotify_match.id, spotify_name |-> match.spotify_match.name,
   confidence |-> match.confidence, spotify_data |-> match.spotify_match]

\* AcceptAlternativeDecision with 'spotify_id' taken from the primary match
AcceptAlternativeDecisionKeepsPrimaryId(match, selected) ==
  [action |-> "accept_alternative", plex_artist |-> match.plex_artist.title,
   spotify_id |-> match.spotify_match.id, spotify_name |-> selected.name,
   original_confidence |-> match.confidence, spotify_data |-> selected]

\* _choose_alternative: the decision dict for the selected alternative
AcceptAlternativeDecision(match, selected) ==
  [action |-> "accept_alternative", plex_artist |-> match.plex_artist.title,
   spotify_id |-> selected.id, spotify_name |-> selected.name,
   original_confidence |-> match.confidence, spotify_data |-> selected]

\* _mark_no_match: the decision dict
RejectionDecision(match) ==
  [action |-> "no_match", plex_artist |-> match.plex_artist.title,
   reason |-> "manual_rejection"]

\* _manual_search: the decision dict for a selected search result
ManualMatchDecision(artist, selected, search_term, match_type) ==
  [action |-> "manual_match", plex_artist |-> artist.title,
   spotify_id |-> selected.id, spotify_name |-> selected.name,
   search_term |-> search_term, match_type |-> match_type, spotify_data |-> selected]

\* _manual_search: the decision dict for 'not available on Spotify'
NotOnSpotifyDecision(artist, search_term) ==
  [action |-> "no_match", plex_artist |-> artist.title,
   reason |-> "not_on_spotify", search_term |-> search_term]

\* _spotify_artist_to_dict with 'followers' taken from artist.popularity
SpotifyArtistToDictFollowersFromPopularity(artist) ==
  [id |-> artist.id, name |-> artist.name, genres |-> artist.genres,
   popularity |-> artist.popularity, followers |-> artist.popularity,
   spotify_url |-> artist.spotify_url, images |-> artist.images]

\* _spotify_artist_to_dict: the seven keys of the dict; bio is not written
SpotifyArtistToDict(artist) ==
  [id |-> artist.id, name |-> artist.name, genres |-> artist.genres,
   popularity |-> artist.popularity, followers |-> artist.followers,
   spotify_url |-> artist.spotify_url, images |-> artist.images]

\* _dict_to_spotify_artist: SpotifyArtistInfo(...) with bio left at its default None
DictToSpotifyArtist(data) ==
  [id |-> data.id, name |-> data.name, genres |-> data.genres,
   popularity |-> data.popularity, followers |-> data.followers,
   images |-> data.images, spotify_url |-> data.spotify_url, bio |-> "None"]

\* decision.copy() with decision_copy[field] = value
WithField(decision, field, value) == (field :> value) @@ decision

\* _save_review_progress, lines 306-308, with decision_copy = decision in place of
\* decision.copy(): the assignment reaches the dict of the ledger
SerializeDecisionInPlace(decision) ==
  LET serialized == IF "spotify_data" \in DOMAIN decision
                    THEN WithField(decision, "spotify_data",
                                   SpotifyArtistToDict(decision.spotify_data))
                    ELSE decision
  IN  [decision |-> serialized, decision_copy |-> serialized]

\* _save_review_progress, lines 306-308, for one decision of the ledger: decision.copy()
\* is a new dict with the same items, and the assignment of the serialized candidate goes
\* to the copy. Both dicts as they are afterwards
SerializeDecision(decision) ==
  LET decision_copy == decision
  IN  [decision |-> decision,
       decision_copy |-> IF "spotify_data" \in DOMAIN decision_copy
                         THEN WithField(decision_copy, "spotify_data",
                                        SpotifyArtistToDict(decision_copy.spotify_data))
                         ELSE decision_copy]

\* _save_review_progress, lines 304-309: the dict handed to json.dump
SerializableDecisions(ledger) ==
  [i \in 1..Len(ledger) |->
     [key |-> ledger[i].key, decision |-> SerializeDecision(ledger[i].decision).decision_copy]]

\* _save_review_progress, lines 304-309: self.decisions after the loop
DecisionsAfterSave(ledger) ==
  [i \in 1..Len(ledger) |->
     [key |-> ledger[i].key, decision |-> SerializeDecision(ledger[i].decision).decision]]

\* load_previous_session, lines 503-510: the ledger rebuilt from json.load's dict
ReconstructedDecisions(loaded_decisions) ==
  [i \in 1..Len(loaded_decisions) |->
     [key |-> loaded_decisions[i].key,
      decision |-> IF "spotify_data" \in DOMAIN loaded_decisions[i].decision
                   THEN WithField(loaded_decisions[i].decision, "spotify_data",
                                  DictToSpotifyArtist(loaded_decisions[i].decision.spotify_data))
                   ELSE loaded_decisions[i].decision]]

\* review_decisions_<timestamp>.json, named by the second of the clock
FileName(now) == now \div TicksPerSecond

\* what writing the file may do: all of it, nothing (makedirs or open raised), or a part
\* of it (the write raised after open truncated the file)
WriteOutcomes == {"ok", "nothing", "partial"}

\* _save_review_progress: the directory afterwards
WriteReviewFile(files, ledger, now, outcome) ==
  LET kept == { f \in files : f.name # FileName(now) }
  IN  CASE outcome = "ok" ->
             kept \cup { [name |-> FileName(now), complete |-> TRUE,
                          content |-> SerializableDecisions(ledger)] }
        [] outcome = "partial" ->
             kept \cup { [name |-> FileName(now), complete |-> FALSE, content |-> <<>>] }
        [] OTHER -> files

\* sorted(os.listdir(reviews_dir), reverse=True): the newest name first
RECURSIVE SortedReverse(_)
SortedReverse(files) ==
  IF files = {} THEN <<>>
  ELSE LET newest == CHOOSE f \in files : \A g \in files : g.name <= f.name
       IN  <<newest>> \o SortedReverse(files \ {newest})

\* the choices load_previous_session offers: 0 and one number per file shown
SessionChoices(files) ==
  LET n == Cardinality(files)
  IN  IF n = 0 THEN {0} ELSE 0..(IF n < SessionsShown THEN n ELSE SessionsShown)

\* load_previous_session: the ledger returned (None is written <<>>)
LoadPreviousSession(files, choice) ==
  IF files = {} \/ choice = 0 THEN <<>>
  ELSE LET file == SortedReverse(files)[choice]
       IN  IF file.complete THEN ReconstructedDecisions(file.content) ELSE <<>>

(***************************************************************************)
(* The review session, prompt by prompt                                    *)
(***************************************************************************)

\* prompts the operator answers in one run
MaxInputs == 7

\* tenths of a second the operator takes to answer a prompt
ThinkTimes == {5}

\* what the operator types at 'Enter search term'
SearchTerms == { <<"a", "b">> }

\* what the provider may answer during a manual search
ManualResponses ==
  { r \in ProviderResponses :
      /\ r.kind \in {"ok", "error", "rate_limited_no_headers"}
      /\ \A i \in 1..Len(r.items) : r.items[i].id \in {"s1", "s3"} }

\* a candidate of the regular search that is no better a match of 'ab' than 'a'
OtherCandidate ==
  [id |-> "s5", name |-> <<"b">>, genres |-> <<"folk">>, popularity |-> 10,
   followers |-> 3, images |-> <<"i5">>, spotify_url |-> "u5", bio |-> "None"]

ArtistInfo(id) == CreateArtistInfo(CHOOSE r \in RawArtists : r.id = id)

LibraryArtist(key) == CHOOSE a \in Library : a.rating_key = key

\* the results of _process_single_artist for a batch: two uncertain matches (the first one
\* with two alternatives), an automatic match and an artist without candidates
ReviewedMatches ==
  << FuzzyMatchResult(LibraryArtist("k1"),
                      <<ArtistInfo("s3"), OtherCandidate,
                        [OtherCandidate EXCEPT !.id = "s6", !.genres = <<>>,
                                               !.popularity = 0, !.followers = 0,
                                               !.images = <<>>, !.spotify_url = "u6"]>>),
     FuzzyMatchResult(LibraryArtist("k2"), <<ArtistInfo("s3")>>),
     ExactMatchResult(LibraryArtist("k3"), <<ArtistInfo("s1"), ArtistInfo("s2")>>) >>

\* process_unmatched_artists, lines 93-99, over the results of a batch
RECURSIVE ProcessedResults(_)
ProcessedResults(matches) ==
  IF matches = <<>> THEN EmptyResults
  ELSE LET last == matches[Len(matches)]
       IN  AppendResult(ProcessedResults(SubSeq(matches, 1, Len(matches) - 1)),
                        BucketOf(last), last)

\* the ledger of an earlier session: nine artists of earlier batches, each marked as not
\* available, so that the next new decision is the tenth of the ledger
PreviousSession ==
  LET keys == <<"p1", "p2", "p3", "p4", "p5", "p6", "p7", "p8", "p9">>
  IN  [i \in 1..Len(keys) |->
         [key |-> keys[i],
          decision |-> Stamp(NotOnSpotifyDecision([title |-> <<"p">>], <<"p">>), 0)]]

\* run.py has the results of a batch and no MatchReviewer yet; results/reviews is empty or
\* holds the file of the earlier session
InitReview ==
  /\ artists = <<>>
  /\ idx = 1
  /\ results = ProcessedResults(ReviewedMatches)
  /\ pc = "returned"
  /\ start_time = 0
  /\ match_result = NoResult
  /\ call = NoCall
  /\ latency = 0
  /\ failures = 0
  /\ raised_idx = {}
  /\ fn_in = Unset
  /\ fn_out = Unset
  /\ spotify = InitSpotify
  /\ updater = NoUpdater
  /\ \E earlier \in BOOLEAN :
       /\ review_files = IF earlier THEN WriteReviewFile({}, PreviousSession, 0, "ok") ELSE {}
       /\ written = IF earlier THEN {[name |-> FileName(0), ledger |-> PreviousSession]} ELSE {}
  /\ decisions = <<>>
  /\ rpc = "idle"
  /\ ridx = 0
  /\ manual = NoManual
  /\ inputs = 0
  /\ loaded_from = NotLoaded
  /\ recorded = <<>>
  /\ hist = NoHistory
  /\ loop = NoLoop

\* what a review session leaves alone
matching ==
  <<artists, idx, results, pc, start_time, match_result, latency, raised_idx, fn_in, fn_out,
    updater>>

\* the operator answers a prompt
Answered ==
  /\ inputs < MaxInputs
  /\ inputs' = inputs + 1

\* _save_review_progress run at time now with the given outcome
SaveReviewProgress(ledger, now, outcome) ==
  /\ outcome # "ok" => failures < MaxFailures
  /\ decisions' = DecisionsAfterSave(ledger)
  /\ failures' = IF outcome = "ok" THEN failures ELSE failures + 1
  /\ review_files' = WriteReviewFile(review_files, ledger, now, outcome)
  /\ written' = CASE outcome = "ok" ->
                       { w \in written : w.name # FileName(now) }
                         \cup { [name |-> FileName(now), ledger |-> ledger] }
                  [] outcome = "partial" -> { w \in written : w.name # FileName(now) }
                  [] OTHER -> written

\* _auto_save saves at this size of the ledger
AutoSaves(ledger) == Len(ledger) % AutoSaveEvery = 0

\* _add_decision at time now; outcome is the outcome of the write _auto_save may do
AddDecision(key, decision, now, outcome) ==
  LET stamped == Stamp(decision, now)
      ledger == DictSet(decisions, key, stamped)
  IN  /\ recorded' = Append(recorded, [key |-> key, decision |-> stamped])
      /\ IF AutoSaves(ledger)
         THEN SaveReviewProgress(ledger, now, outcome)
         ELSE /\ outcome = "ok"
              /\ decisions' = ledger
              /\ UNCHANGED <<failures, review_files, written>>

\* history: the operator answered; first tells that the answer is the first one about an item
Noted(answer, first) ==
  LET added == Len(recorded') - Len(recorded)
  IN  hist' = [answer |-> answer,
               save_offered |-> FALSE,
               calls |-> hist.calls + added,
               item_decisions |-> (IF first THEN 0 ELSE hist.item_decisions) + added,
               auto_saved |-> added > 0 /\ AutoSaves(decisions')]

\* lines 87-94 (run.py line 141 made the MatchReviewer): the ledger is the loaded session
\* or empty; the prompt is shown only when there are files
StartReviewSession ==
  /\ rpc \in {"idle", "closed"}
  /\ IF review_files = {}
     THEN UNCHANGED <<inputs, spotify>>
     ELSE Answered /\ \E dt \in ThinkTimes : spotify' = Sleep(spotify, dt)
  /\ \E choice \in SessionChoices(review_files) :
       LET previous_session == LoadPreviousSession(review_files, choice)
       IN  /\ decisions' = previous_session
           /\ recorded' = previous_session
           /\ loaded_from' = IF choice = 0 THEN NotLoaded
                             ELSE SortedReverse(review_files)[choice].name
  /\ rpc' = "menu"
  /\ ridx' = 0
  /\ manual' = NoManual
  /\ loop' = NoLoop
  /\ UNCHANGED <<matching, call, failures, review_files, written>>
  /\ hist' = [NoHistory EXCEPT !.answer = "start"]

\* _batch_review_matches, lines 379-380 and 423: the batch that starts at start_idx is
\* shown, or the while loop ends and the menu is shown again
NextBatch(start_idx) ==
  LET matches == results.needs_review
      last == IF start_idx + BatchSize < Len(matches) THEN start_idx + BatchSize
              ELSE Len(matches)
  IN  /\ ridx' = 0
      /\ IF start_idx < Len(matches)
         THEN /\ rpc' = "batch"
              /\ loop' = [kind |-> "batch", items |-> SubSeq(matches, start_idx + 1, last),
                          start_idx |-> start_idx]
         ELSE rpc' = "menu" /\ loop' = NoLoop

\* the for loop over the items goes on to the next item: the next uncertain match, the
\* next found match ('Would you like to review this match?') or the next match of the
\* batch; after the last item _review_uncertain_matches returns to the menu,
\* _review_automatic_matches asks for another name and _batch_review_matches goes on to the
\* next batch
NextMatch ==
  IF ridx < Len(loop.items)
  THEN /\ rpc' = CASE loop.kind = "uncertain" -> "uncertain"
                   [] loop.kind = "automatic" -> "auto_confirm"
                   [] OTHER -> "single"
       /\ ridx' = ridx + 1
       /\ UNCHANGED loop
  ELSE CASE loop.kind = "automatic" ->
              rpc' = "auto_term" /\ ridx' = 0 /\ loop' = [loop EXCEPT !.items = <<>>]
         [] loop.kind = "batch" -> NextBatch(loop.start_idx + BatchSize)
         [] OTHER -> rpc' = "menu" /\ ridx' = 0 /\ loop' = NoLoop

\* menu choice 1, lines 132-134: _review_uncertain_matches shows its first match, if any
MenuReviewUncertain ==
  /\ rpc = "menu"
  /\ Answered
  /\ \E dt \in ThinkTimes : spotify' = Sleep(spotify, dt)
  /\ IF results.needs_review = <<>>
     THEN rpc' = "menu" /\ ridx' = 0 /\ loop' = NoLoop
     ELSE /\ rpc' = "uncertain" /\ ridx' = 1
          /\ loop' = [kind |-> "uncertain", items |-> results.needs_review, start_idx |-> 0]
  /\ UNCHANGED <<matching, call, failures, decisions, review_files, manual, loaded_from,
                 recorded, written>>
  /\ Noted("review_uncertain", TRUE)

\* option 1: _accept_match; an exception of the auto-save is logged and the loop goes on
AcceptMatch ==
  /\ rpc = "uncertain"
  /\ Answered
  /\ \E dt \in ThinkTimes, outcome \in WriteOutcomes :
       LET match == results.needs_review[ridx]
       IN  /\ spotify' = Sleep(spotify, dt)
           /\ AddDecision(match.plex_artist.rating_key, AcceptPrimaryDecision(match),
                          spotify.now + dt, outcome)
  /\ NextMatch
  /\ UNCHANGED <<matching, call, manual, loaded_from>>
  /\ Noted("accept", TRUE)

\* ChooseAlternative that records the primary match as the alternative chosen
ChooseAlternativeTakesPrimary ==
  /\ rpc = "uncertain"
  /\ Answered
  /\ LET match == results.needs_review[ridx]
     IN  IF match.alternative_matches = <<>>
         THEN /\ \E dt \in ThinkTimes : spotify' = Sleep(spotify, dt)
              /\ UNCHANGED <<decisions, recorded, failures, review_files, written>>
         ELSE \E dt \in ThinkTimes, outcome \in WriteOutcomes,
                 choice \in 1..Len(match.alternative_matches) :
                /\ spotify' = Sleep(spotify, dt)
                /\ AddDecision(match.plex_artist.rating_key,
                               AcceptAlternativeDecision(match, match.spotify_match),
                               spotify.now + dt, outcome)
  /\ NextMatch
  /\ UNCHANGED <<matching, call, manual, loaded_from>>
  /\ Noted("alternative", TRUE)

\* option 2: _choose_alternative; without alternatives nothing is asked or recorded
ChooseAlternative ==
  /\ rpc = "uncertain"
  /\ Answered
  /\ LET match == results.needs_review[ridx]
     IN  IF match.alternative_matches = <<>>
         THEN /\ \E dt \in ThinkTimes : spotify' = Sleep(spotify, dt)
              /\ UNCHANGED <<decisions, recorded, failures, review_files, written>>
         ELSE \E dt \in ThinkTimes, outcome \in WriteOutcomes,
                 choice \in 1..Len(match.alternative_matches) :
                /\ spotify' = Sleep(spotify, dt)
                /\ AddDecision(match.plex_artist.rating_key,
                               AcceptAlternativeDecision(match, match.alternative_matches[choice]),
                               spotify.now + dt, outcome)
  /\ NextMatch
  /\ UNCHANGED <<matching, call, manual, loaded_from>>
  /\ Noted("alternative", TRUE)

\* SkipMatch that records the match as rejected
SkipMatchRejects ==
  /\ rpc = "uncertain"
  /\ Answered
  /\ \E dt \in ThinkTimes, outcome \in WriteOutcomes :
       LET match == results.needs_review[ridx]
       IN  /\ spotify' = Sleep(spotify, dt)
           /\ AddDecision(match.plex_artist.rating_key, RejectionDecision(match),
                          spotify.now + dt, outcome)
  /\ NextMatch
  /\ UNCHANGED <<matching, call, manual, loaded_from>>
  /\ Noted("skip", TRUE)

\* option 4: skip for now
SkipMatch ==
  /\ rpc = "uncertain"
  /\ Answered
  /\ \E dt \in ThinkTimes : spotify' = Sleep(spotify, dt)
  /\ NextMatch
  /\ UNCHANGED <<matching, call, failures, decisions, review_files, manual, loaded_from,
                 recorded, written>>
  /\ Noted("skip", TRUE)

\* option 5: _mark_no_match
MarkNoMatch ==
  /\ rpc = "uncertain"
  /\ Answered
  /\ \E dt \in ThinkTimes, outcome \in WriteOutcomes :
       LET match == results.needs_review[ridx]
       IN  /\ spotify' = Sleep(spotify, dt)
           /\ AddDecision(match.plex_artist.rating_key, RejectionDecision(match),
                          spotify.now + dt, outcome)
  /\ NextMatch
  /\ UNCHANGED <<matching, call, manual, loaded_from>>
  /\ Noted("no_match", TRUE)

\* menu choice 5: _save_review_progress; an exception asks 'Would you like to continue?'
MenuSaveProgress ==
  /\ rpc = "menu"
  /\ Answered
  /\ \E dt \in ThinkTimes, outcome \in WriteOutcomes :
       /\ spotify' = Sleep(spotify, dt)
       /\ SaveReviewProgress(decisions, spotify.now + dt, outcome)
       /\ rpc' = IF outcome = "ok" THEN "menu" ELSE "error"
  /\ UNCHANGED <<matching, call, ridx, manual, loaded_from, recorded, loop>>
  /\ Noted("save", TRUE)

\* menu choice 6: _track_review_stats prints the counts
MenuShowStatistics ==
  /\ rpc = "menu"
  /\ Answered
  /\ \E dt \in ThinkTimes : spotify' = Sleep(spotify, dt)
  /\ UNCHANGED <<matching, call, failures, decisions, review_files, rpc, ridx, manual,
                 loaded_from, recorded, written, loop>>
  /\ Noted("statistics", TRUE)

\* menu choice 7: _confirm_exit offers to save a non-empty ledger; start_review_session
\* returns unless the save raised
MenuExit ==
  /\ rpc = "menu"
  /\ Answered
  /\ \E dt \in ThinkTimes, save \in BOOLEAN, outcome \in WriteOutcomes :
       /\ spotify' = Sleep(spotify, dt)
       /\ IF decisions # <<>> /\ save
          THEN /\ SaveReviewProgress(decisions, spotify.now + dt, outcome)
               /\ rpc' = IF outcome = "ok" THEN "closed" ELSE "error"
          ELSE /\ decisions = <<>> => ~save
               /\ outcome = "ok"
               /\ rpc' = "closed"
               /\ UNCHANGED <<failures, decisions, review_files, written>>
  /\ UNCHANGED <<matching, call, ridx, manual, loaded_from, recorded, loop>>
  /\ hist' = [hist EXCEPT !.answer = "exit", !.auto_saved = FALSE,
                         !.save_offered = decisions # <<>>]

\* 'exit' at the search term prompt
ExitTerm == <<"e", "x", "i", "t">>

\* option 3: _manual_search(match.plex_artist) asks for a search term
StartManualSearch ==
  /\ rpc = "uncertain"
  /\ Answered
  /\ \E dt \in ThinkTimes : spotify' = Sleep(spotify, dt)
  /\ manual' = [active |-> TRUE, artist |-> results.needs_review[ridx].plex_artist,
                search_term |-> <<>>]
  /\ rpc' = "manual_term"
  /\ UNCHANGED <<matching, call, failures, decisions, review_files, ridx, loaded_from,
                 recorded, written, loop>>
  /\ Noted("manual_search", TRUE)

\* _manual_search returns to the loop of _review_uncertain_matches
LeaveManualSearch ==
  /\ NextMatch
  /\ manual' = NoManual
  /\ call' = NoCall

\* the while loop of _manual_search asks for another term
AskAnotherTerm ==
  /\ rpc' = "manual_term"
  /\ call' = NoCall
  /\ UNCHANGED <<ridx, manual, loop>>

\* lines 522-528: 'exit' breaks, any other term starts the exact search
ManualEnterTerm ==
  /\ rpc = "manual_term"
  /\ Answered
  /\ \E dt \in ThinkTimes, search_term \in SearchTerms \cup {ExitTerm} :
       IF Lower(search_term) = ExitTerm
       THEN /\ spotify' = Sleep(spotify, dt)
            /\ LeaveManualSearch
       ELSE LET r == BeginSearch(search_term, TRUE, Sleep(spotify, dt))
            IN  /\ call' = r.call
                /\ spotify' = r.st
                /\ manual' = [manual EXCEPT !.search_term = search_term]
                /\ rpc' = "manual_exact"
                /\ UNCHANGED <<ridx, loop>>
  /\ UNCHANGED <<matching, failures, decisions, review_files, loaded_from, recorded, written>>
  /\ Noted("term", FALSE)

\* one provider request of the search _manual_search waits for
ManualSearchRequest ==
  /\ rpc \in {"manual_exact", "manual_regular"}
  /\ call.status = "pending"
  /\ \E resp \in ManualResponses :
       LET r == RequestStep(call, resp, latency, spotify)
       IN  /\ resp.kind # "ok" => failures < MaxFailures
           /\ failures' = IF resp.kind = "ok" THEN failures ELSE failures + 1
           /\ call' = r.call
           /\ spotify' = r.st
  /\ UNCHANGED <<matching, decisions, review_files, rpc, ridx, manual, inputs, loaded_from,
                 recorded, written, loop>>
  /\ UNCHANGED hist

\* _add_decision followed by break; when the auto-save raised, the handler of lines 598-602
\* asks whether to try another search
ManualDecision(decision, now) ==
  \E outcome \in WriteOutcomes, again \in BOOLEAN :
    /\ AddDecision(manual.artist.rating_key, decision, now, outcome)
    /\ IF AutoSaves(decisions') /\ outcome # "ok"
       THEN IF again THEN AskAnotherTerm ELSE LeaveManualSearch
       ELSE ~again /\ LeaveManualSearch

\* lines 529-547: the exact search returned; its first result is offered, and the regular
\* search starts when there is none or the operator declines
ManualExactReturned ==
  /\ rpc = "manual_exact"
  /\ call.status = "returned"
  /\ LET offered == call.result # <<>>
     IN  /\ IF offered THEN Answered ELSE UNCHANGED inputs
         /\ \E dt \in IF offered THEN ThinkTimes ELSE {0},
               use \in IF offered THEN BOOLEAN ELSE {FALSE} :
              IF use
              THEN /\ spotify' = Sleep(spotify, dt)
                   /\ ManualDecision(ManualMatchDecision(manual.artist, call.result[1],
                                                         manual.search_term, "exact"),
                                     spotify.now + dt)
              ELSE LET r == BeginSearch(manual.search_term, FALSE, Sleep(spotify, dt))
                   IN  /\ call' = r.call
                       /\ spotify' = r.st
                       /\ rpc' = "manual_regular"
                       /\ UNCHANGED <<failures, decisions, review_files, ridx, manual,
                                      recorded, written, loop>>
  /\ UNCHANGED <<matching, loaded_from>>
  /\ IF call.result # <<>> THEN Noted("exact_offer", FALSE) ELSE UNCHANGED hist

\* lines 549-596: the regular search returned. With results the operator selects one,
\* searches again (0) or answers 'n' (written Len + 1); without results the artist may be
\* marked as not available
ManualRegularReturned ==
  /\ rpc = "manual_regular"
  /\ call.status = "returned"
  /\ Answered
  /\ \E dt \in ThinkTimes, mark \in BOOLEAN, choice \in 0..(Len(call.result) + 1) :
       LET not_on_spotify == NotOnSpotifyDecision(manual.artist, manual.search_term)
           declined == /\ AskAnotherTerm
                       /\ UNCHANGED <<failures, decisions, review_files, recorded, written>>
       IN  /\ spotify' = Sleep(spotify, dt)
           /\ IF call.result = <<>>
              THEN /\ choice = 0
                   /\ IF mark THEN ManualDecision(not_on_spotify, spotify.now + dt)
                      ELSE declined
              ELSE CASE choice = 0 -> ~mark /\ declined
                     [] choice = Len(call.result) + 1 ->
                          IF mark THEN ManualDecision(not_on_spotify, spotify.now + dt)
                          ELSE declined
                     [] OTHER ->
                          /\ ~mark
                          /\ ManualDecision(ManualMatchDecision(manual.artist, call.result[choice],
                                                                manual.search_term, "manual"),
                                            spotify.now + dt)
  /\ UNCHANGED <<matching, loaded_from>>
  /\ Noted("regular_choice", FALSE)

\* lines 598-602: search_artist raised; the operator tries another search or gives up
ManualSearchRaised ==
  /\ rpc \in {"manual_exact", "manual_regular"}
  /\ call.status = "raised"
  /\ Answered
  /\ \E dt \in ThinkTimes, again \in BOOLEAN :
       /\ spotify' = Sleep(spotify, dt)
       /\ IF again THEN AskAnotherTerm ELSE LeaveManualSearch
  /\ UNCHANGED <<matching, failures, decisions, review_files, loaded_from, recorded, written>>
  /\ Noted("search_error", FALSE)

\* RaisedInMenuLoop without the except clause: start_review_session is left
RaisedInMenuLoopReturns ==
  /\ rpc' = "closed"
  /\ ridx' = 0
  /\ loop' = NoLoop

\* an exception leaves the handler of a menu choice: the except clause of line 122 logs it
\* and asks 'Would you like to continue?'
RaisedInMenuLoop ==
  /\ rpc' = "error"
  /\ ridx' = 0
  /\ loop' = NoLoop

\* lines 124-126: a yes shows the menu again, a no lets start_review_session return
ContinueOrBreak ==
  /\ rpc = "error"
  /\ UNCHANGED <<matching, call, failures, decisions, review_files, ridx, manual, inputs,
                 loaded_from, recorded, written, loop>>
  /\ \E dt \in ThinkTimes, continue \in BOOLEAN :
       /\ spotify' = Sleep(spotify, dt)
       /\ rpc' = IF continue THEN "menu" ELSE "closed"
       /\ Noted(IF continue THEN "continue" ELSE "break", TRUE)

\* menu choice 2: _review_automatic_matches asks for an artist name, if there are matches
MenuReviewAutomatic ==
  /\ rpc = "menu"
  /\ Answered
  /\ \E dt \in ThinkTimes : spotify' = Sleep(spotify, dt)
  /\ IF results.matched = <<>>
     THEN rpc' = "menu" /\ loop' = NoLoop
     ELSE rpc' = "auto_term" /\ loop' = [kind |-> "automatic", items |-> <<>>, start_idx |-> 0]
  /\ ridx' = 0
  /\ UNCHANGED <<matching, call, failures, decisions, review_files, manual, loaded_from,
                 recorded, written>>
  /\ Noted("review_automatic", TRUE)

\* lines 175-195: 'exit' returns to the menu; any other name selects the matches whose
\* title contains it, and the first one found is shown
AutomaticEnterTerm ==
  /\ rpc = "auto_term"
  /\ Answered
  /\ \E dt \in ThinkTimes, search_term \in SearchTerms \cup {ExitTerm} :
       LET InTitle(m) == Contains(Lower(m.plex_artist.title), Lower(search_term))
           found_matches == SelectSeq(results.matched, InTitle)
       IN  /\ spotify' = Sleep(spotify, dt)
           /\ IF Lower(search_term) = ExitTerm
              THEN rpc' = "menu" /\ ridx' = 0 /\ loop' = NoLoop
              ELSE IF found_matches = <<>>
                   THEN UNCHANGED <<rpc, ridx, loop>>
                   ELSE /\ rpc' = "auto_confirm"
                        /\ ridx' = 1
                        /\ loop' = [loop EXCEPT !.items = found_matches]
  /\ UNCHANGED <<matching, call, failures, decisions, review_files, manual, loaded_from,
                 recorded, written>>
  /\ Noted("name", TRUE)

\* lines 192-193: 'Would you like to review this match?'
ConfirmReview ==
  /\ rpc = "auto_confirm"
  /\ Answered
  /\ \E dt \in ThinkTimes, review \in BOOLEAN :
       /\ spotify' = Sleep(spotify, dt)
       /\ IF review THEN rpc' = "single" /\ UNCHANGED <<ridx, loop>> ELSE NextMatch
  /\ UNCHANGED <<matching, call, failures, decisions, review_files, manual, loaded_from,
                 recorded, written>>
  /\ Noted("confirm_review", TRUE)

\* _review_single_automatic_match, called for a found automatic match or (through
\* _review_single_match) for a match of a batch: 1 accepts, 2 searches manually, 3 marks as
\* no match, 4 skips. An exception of the auto-save is caught by no handler before the one
\* of the menu loop
ReviewSingleAutomaticMatch ==
  /\ rpc = "single"
  /\ Answered
  /\ \E dt \in ThinkTimes, choice \in 1..4, outcome \in WriteOutcomes :
       LET match == loop.items[ridx]
           now == spotify.now + dt
           decided(decision) ==
             /\ AddDecision(match.plex_artist.rating_key, decision, now, outcome)
             /\ IF AutoSaves(decisions') /\ outcome # "ok"
                THEN RaisedInMenuLoop
                ELSE NextMatch
             /\ UNCHANGED manual
           undecided ==
             /\ outcome = "ok"
             /\ UNCHANGED <<failures, decisions, review_files, recorded, written>>
       IN  /\ spotify' = Sleep(spotify, dt)
           /\ CASE choice = 1 -> decided(AcceptPrimaryDecision(match)) /\ Noted("accept", TRUE)
                [] choice = 2 ->
                     /\ undecided
                     /\ manual' = [active |-> TRUE, artist |-> match.plex_artist,
                                   search_term |-> <<>>]
                     /\ rpc' = "manual_term"
                     /\ UNCHANGED <<ridx, loop>>
                     /\ Noted("manual_search", TRUE)
                [] choice = 3 -> decided(RejectionDecision(match)) /\ Noted("no_match", TRUE)
                [] OTHER -> undecided /\ NextMatch /\ UNCHANGED manual /\ Noted("skip", TRUE)
  /\ UNCHANGED <<matching, call, loaded_from>>

\* menu choice 4: _batch_review_matches(results['needs_review']) shows its first batch
MenuBatchReview ==
  /\ rpc = "menu"
  /\ Answered
  /\ \E dt \in ThinkTimes : spotify' = Sleep(spotify, dt)
  /\ NextBatch(0)
  /\ UNCHANGED <<matching, call, failures, decisions, review_files, manual, loaded_from,
                 recorded, written>>
  /\ Noted("batch_review", TRUE)

\* lines 409-414: _accept_match for the matches of the batch in their order, until one
\* raises. st is the reviewer and its directory so far; st.raised tells that _auto_save
\* raised, st.saved that it wrote or tried to, st.fits that outcomes names a failure only
\* where a write is made
RECURSIVE AcceptAll(_, _, _, _)
AcceptAll(st, batch, now, outcomes) ==
  IF batch = <<>> THEN st
  ELSE LET match == Head(batch)
           outcome == Head(outcomes)
           stamped == Stamp(AcceptPrimaryDecision(match), now)
           ledger == DictSet(st.decisions, match.plex_artist.rating_key, stamped)
           saves == AutoSaves(ledger)
           accepted ==
             [decisions |-> IF saves THEN DecisionsAfterSave(ledger) ELSE ledger,
              recorded |-> Append(st.recorded, [key |-> match.plex_artist.rating_key,
                                                decision |-> stamped]),
              review_files |-> IF saves
                               THEN WriteReviewFile(st.review_files, ledger, now, outcome)
                               ELSE st.review_files,
              written |-> IF saves /\ outcome \in {"ok", "partial"}
                          THEN { w \in st.written : w.name # FileName(now) }
                                 \cup IF outcome = "ok"
                                      THEN {[name |-> FileName(now), ledger |-> ledger]}
                                      ELSE {}
                          ELSE st.written,
              raised |-> saves /\ outcome # "ok",
              saved |-> st.saved \/ saves,
              fits |-> st.fits /\ (saves \/ outcome = "ok")]
           passed == [st EXCEPT !.fits = st.fits /\ outcome = "ok"]
       IN  AcceptAll(IF st.raised \/ match.spotify_match = NoArtist THEN passed ELSE accepted,
                     Tail(batch), now, Tail(outcomes))

\* the choice of a batch: 1 accepts all matches, 2 reviews them one by one, 3 skips the
\* batch, 4 leaves the batch review
BatchReviewMatches ==
  /\ rpc = "batch"
  /\ Answered
  /\ \E dt \in ThinkTimes, choice \in 1..4,
        outcomes \in [1..Len(loop.items) -> WriteOutcomes] :
       LET st == AcceptAll([decisions |-> decisions, recorded |-> recorded,
                            review_files |-> review_files, written |-> written,
                            raised |-> FALSE, saved |-> FALSE, fits |-> TRUE],
                           loop.items, spotify.now + dt, outcomes)
           unchanged ==
             /\ \A i \in DOMAIN outcomes : outcomes[i] = "ok"
             /\ UNCHANGED <<failures, decisions, review_files, recorded, written>>
       IN  /\ spotify' = Sleep(spotify, dt)
           /\ CASE choice = 1 ->
                     /\ st.fits
                     /\ st.raised => failures < MaxFailures
                     /\ failures' = IF st.raised THEN failures + 1 ELSE failures
                     /\ decisions' = st.decisions
                     /\ recorded' = st.recorded
                     /\ review_files' = st.review_files
                     /\ written' = st.written
                     /\ IF st.raised THEN RaisedInMenuLoop
                        ELSE NextBatch(loop.start_idx + BatchSize)
                     /\ hist' = [answer |-> "accept_all", save_offered |-> FALSE,
                                 calls |-> hist.calls + Len(st.recorded) - Len(recorded),
                                 item_decisions |-> 0, auto_saved |-> st.saved]
                [] choice = 2 ->
                     /\ unchanged
                     /\ rpc' = "single" /\ ridx' = 1 /\ UNCHANGED loop
                     /\ Noted("review_individually", TRUE)
                [] choice = 3 ->
                     /\ unchanged
                     /\ NextBatch(loop.start_idx + BatchSize)
                     /\ Noted("skip", TRUE)
                [] OTHER ->
                     /\ unchanged
                     /\ rpc' = "menu" /\ ridx' = 0 /\ loop' = NoLoop
                     /\ Noted("exit_batch", TRUE)
  /\ UNCHANGED <<matching, call, manual, loaded_from>>

\* Ctrl-C while the session waits for the operator or the provider: KeyboardInterrupt is
\* no Exception, so no handler of the reviewer or of run.py catches it and the program ends
ReviewInterrupt ==
  /\ rpc \in {"menu", "error", "uncertain", "auto_term", "auto_confirm", "single", "batch",
              "manual_term", "manual_exact", "manual_regular"}
  /\ rpc' = "interrupted"
  /\ hist' = [hist EXCEPT !.answer = "interrupt", !.save_offered = FALSE,
                         !.auto_saved = FALSE]
  /\ UNCHANGED <<matching, call, failures, spotify, decisions, review_files, ridx, manual,
                 inputs, loaded_from, recorded, written, loop>>

NextReview ==
  \/ StartReviewSession
  \/ MenuReviewUncertain
  \/ AcceptMatch
  \/ ChooseAlternative
  \/ StartManualSearch
  \/ ManualEnterTerm
  \/ ManualSearchRequest
  \/ ManualExactReturned
  \/ ManualRegularReturned
  \/ ManualSearchRaised
  \/ SkipMatch
  \/ MarkNoMatch
  \/ MenuSaveProgress
  \/ MenuShowStatistics
  \/ MenuExit
  \/ ContinueOrBreak
  \/ MenuReviewAutomatic
  \/ AutomaticEnterTerm
  \/ ConfirmReview
  \/ ReviewSingleAutomaticMatch
  \/ MenuBatchReview
  \/ BatchReviewMatches
  \/ ReviewInterrupt

SpecReview == InitReview /\ [][NextReview]_vars

(***************************************************************************)
(* _batch_review_matches over a list of several batches                    *)
(***************************************************************************)

\* longest needs_review list given to the batch review
MaxMatches == 11

\* rating keys of the artists that need review
BatchKeys == <<"b1", "b2", "b3", "b4", "b5", "b6", "b7", "b8", "b9", "b10", "b11", "b12">>

\* run.py has the results of process_unmatched_artists: n uncertain matches, each with one
\* candidate; results/reviews is empty or holds the file of the earlier session
InitBatch ==
  /\ artists = <<>>
  /\ idx = 1
  /\ \E n \in 0..MaxMatches :
       results = ProcessedResults(
                   [i \in 1..n |->
                      FuzzyMatchResult([rating_key |-> BatchKeys[i], title |-> <<"a", "&", "b">>],
                                       <<ArtistInfo("s3")>>)])
  /\ pc = "returned"
  /\ start_time = 0
  /\ match_result = NoResult
  /\ call = NoCall
  /\ latency = 0
  /\ failures = 0
  /\ raised_idx = {}
  /\ fn_in = Unset
  /\ fn_out = Unset
  /\ spotify = InitSpotify
  /\ updater = NoUpdater
  /\ \E earlier \in BOOLEAN :
       /\ review_files = IF earlier THEN WriteReviewFile({}, PreviousSession, 0, "ok") ELSE {}
       /\ written = IF earlier THEN {[name |-> FileName(0), ledger |-> PreviousSession]} ELSE {}
  /\ decisions = <<>>
  /\ rpc = "idle"
  /\ ridx = 0
  /\ manual = NoManual
  /\ inputs = 0
  /\ loaded_from = NotLoaded
  /\ recorded = <<>>
  /\ hist = NoHistory
  /\ loop = NoLoop

\* the session in which the operator uses the batch review only: menu choice 4, the
\* choices of a batch, the review of its matches one by one with its manual search, and
\* the question after an error
NextBatchReview ==
  \/ StartReviewSession
  \/ MenuBatchReview
  \/ BatchReviewMatches
  \/ ReviewSingleAutomaticMatch
  \/ ManualEnterTerm
  \/ ManualSearchRequest
  \/ ManualExactReturned
  \/ ManualRegularReturned
  \/ ManualSearchRaised
  \/ ContinueOrBreak
  \/ ReviewInterrupt

SpecBatch == InitBatch /\ [][NextBatchReview]_vars

(***************************************************************************)
(* PlexArtistUpdater.apply_decisions                                       *)
(***************************************************************************)

\* decisions in the ledger handed to apply_decisions
MaxDecisions == 3

\* AcceptingActions with 'no_match' among them
AcceptingActionsAndNoMatch ==
  {"accept_primary", "accept_alternative", "manual_match", "no_match"}

\* lines 35-36 and 56: the actions whose decisions are applied
AcceptingActions == {"accept_primary", "accept_alternative", "manual_match"}

\* the decisions a review session may have recorded for the library artist with this
\* rating key, numbered: the three acceptances, the two rejections, and an acceptance whose
\* spotify_data is None
DecisionFor(key, kind) ==
  LET match == ExactMatchResult(LibraryArtist(key), <<ArtistInfo("s1"), ArtistInfo("s2")>>)
      term == <<"a", "b">>
  IN  Stamp(CASE kind = 1 -> AcceptPrimaryDecision(match)
              [] kind = 2 -> AcceptAlternativeDecision(match, match.alternative_matches[1])
              [] kind = 3 -> ManualMatchDecision(match.plex_artist, ArtistInfo("s3"), term,
                                                 "manual")
              [] kind = 4 -> RejectionDecision(match)
              [] kind = 5 -> NotOnSpotifyDecision(match.plex_artist, term)
              [] OTHER -> [AcceptPrimaryDecision(match) EXCEPT !.spotify_data = NoArtist],
            Epoch)

\* PlexArtistUpdater.__init__, and the dict run.py is about to hand to apply_decisions.
\* pos counts the items of decisions.items() the for loop is through with, or was at when
\* it was interrupted; updates is the history of the calls of _update_artist_metadata;
\* summary holds the stats _display_update_summary has shown
InitUpdate ==
  /\ artists = <<>>
  /\ idx = 1
  /\ results = EmptyResults
  /\ pc = "returned"
  /\ start_time = 0
  /\ match_result = NoResult
  /\ call = NoCall
  /\ latency = 0
  /\ failures = 0
  /\ raised_idx = {}
  /\ fn_in = Unset
  /\ fn_out = Unset
  /\ spotify = InitSpotify
  /\ NoReviewer
  /\ \E keys \in DistinctSeqs({"k1", "k2", "k3"}, MaxDecisions) :
       \E kinds \in [1..Len(keys) -> 1..6] :
         updater = [state |-> "constructed",
                    decisions |-> [i \in 1..Len(keys) |->
                                     [key |-> keys[i],
                                      decision |-> DecisionFor(keys[i], kinds[i])]],
                    pos |-> 0,
                    stats |-> [total |-> 0, successful |-> 0, failed |-> 0, skipped |-> 0,
                               image_updated |-> 0, metadata_updated |-> 0,
                               bios_updated |-> 0],
                    completed_at |-> "None",
                    summary |-> <<>>,
                    updates |-> <<>>]

\* lines 32-37: update_candidates are counted into stats['total']
ApplyDecisions ==
  /\ updater.state = "constructed"
  /\ LET update_candidates ==
           SelectSeq(updater.decisions, LAMBDA d : d.decision.action \in AcceptingActions)
     IN  updater' = [updater EXCEPT !.state = "running",
                                    !.stats.total = Len(update_candidates)]
  /\ UNCHANGED <<artists, idx, results, pc, start_time, match_result, call, latency, failures,
                 raised_idx, fn_in, fn_out, spotify, reviewer>>

\* ApplyNextDecision that leaves the loop at the first artist that fails
ApplyNextDecisionStopsAtFailure ==
  /\ updater.state = "running"
  /\ updater.pos < Len(updater.decisions)
  /\ LET rating_key == updater.decisions[updater.pos + 1].key
         decision == updater.decisions[updater.pos + 1].decision
         spotify_data == IF "spotify_data" \in DOMAIN decision
                         THEN decision.spotify_data ELSE NoArtist
         passed == [updater EXCEPT !.pos = @ + 1]
         stopped == [passed EXCEPT !.stats.failed = @ + 1, !.pos = Len(updater.decisions)]
     IN  IF decision.action \notin AcceptingActions
         THEN updater' = [passed EXCEPT !.stats.skipped = @ + 1]
         ELSE IF spotify_data = NoArtist
              THEN updater' = stopped
              ELSE \E outcome \in {"updated", "fetch_failed", "edit_failed", "reload_failed"} :
                     LET update == [rating_key |-> rating_key, spotify_data |-> spotify_data,
                                    outcome |-> outcome]
                     IN  updater' =
                           IF outcome = "updated"
                           THEN [passed EXCEPT !.updates = Append(@, update),
                                               !.stats.successful = @ + 1,
                                               !.stats.metadata_updated = @ + 1]
                           ELSE [stopped EXCEPT !.updates = Append(@, update)]
  /\ UNCHANGED <<artists, idx, results, pc, start_time, match_result, call, latency, failures,
                 raised_idx, fn_in, fn_out, spotify, reviewer>>

\* ApplyNextDecision that counts a decision it skips as failed
ApplyNextDecisionCountsSkippedAsFailed ==
  /\ updater.state = "running"
  /\ updater.pos < Len(updater.decisions)
  /\ LET rating_key == updater.decisions[updater.pos + 1].key
         decision == updater.decisions[updater.pos + 1].decision
         spotify_data == IF "spotify_data" \in DOMAIN decision
                         THEN decision.spotify_data ELSE NoArtist
         passed == [updater EXCEPT !.pos = @ + 1]
     IN  IF decision.action \notin AcceptingActions
         THEN updater' = [passed EXCEPT !.stats.skipped = @ + 1, !.stats.failed = @ + 1]
         ELSE IF spotify_data = NoArtist
              THEN updater' = [passed EXCEPT !.stats.failed = @ + 1]
              ELSE \E outcome \in {"updated", "fetch_failed", "edit_failed", "reload_failed"},
                      poster \in BOOLEAN :
                     LET called == [passed EXCEPT !.updates =
                                      Append(@, [rating_key |-> rating_key,
                                                 spotify_data |-> spotify_data,
                                                 outcome |-> outcome])]
                         bio == IF outcome # "fetch_failed"
                                THEN [called EXCEPT !.stats.bios_updated = @ + 1]
                                ELSE called
                         edited == IF outcome \in {"updated", "reload_failed"}
                                   THEN [bio EXCEPT !.stats.metadata_updated = @ + 1]
                                   ELSE bio
                         uploaded == IF outcome = "updated" /\ spotify_data.images # <<>>
                                        /\ poster
                                     THEN [edited EXCEPT !.stats.image_updated = @ + 1]
                                     ELSE edited
                     IN  updater' = IF outcome = "updated"
                                    THEN [uploaded EXCEPT !.stats.successful = @ + 1]
                                    ELSE [uploaded EXCEPT !.stats.failed = @ + 1]
  /\ UNCHANGED <<artists, idx, results, pc, start_time, match_result, call, latency, failures,
                 raised_idx, fn_in, fn_out, spotify, reviewer>>

\* lines 55-85, one pass of the for loop: a decision with another action is skipped; an
\* accepted one without spotify_data fails; otherwise _update_artist_metadata is called
\* for the item's rating key. It fetches the artist, edits it, counts the edit, reloads the
\* artist and returns True, or it catches what fetchItem, edit or reload raised and returns
\* False. The biography is counted before the edit (line 180), the poster after the reload
\* when the candidate has images and uploadPoster did not raise (lines 199-207)
ApplyNextDecision ==
  /\ updater.state = "running"
  /\ updater.pos < Len(updater.decisions)
  /\ LET rating_key == updater.decisions[updater.pos + 1].key
         decision == updater.decisions[updater.pos + 1].decision
         spotify_data == IF "spotify_data" \in DOMAIN decision
                         THEN decision.spotify_data ELSE NoArtist
         passed == [updater EXCEPT !.pos = @ + 1]
     IN  IF decision.action \notin AcceptingActions
         THEN updater' = [passed EXCEPT !.stats.skipped = @ + 1]
         ELSE IF spotify_data = NoArtist
              THEN updater' = [passed EXCEPT !.stats.failed = @ + 1]
              ELSE \E outcome \in {"updated", "fetch_failed", "edit_failed", "reload_failed"},
                      poster \in BOOLEAN :
                     LET called == [passed EXCEPT !.updates =
                                      Append(@, [rating_key |-> rating_key,
                                                 spotify_data |-> spotify_data,
                                                 outcome |-> outcome])]
                         bio == IF outcome # "fetch_failed"
                                THEN [called EXCEPT !.stats.bios_updated = @ + 1]
                                ELSE called
                         edited == IF outcome \in {"updated", "reload_failed"}
                                   THEN [bio EXCEPT !.stats.metadata_updated = @ + 1]
                                   ELSE bio
                         uploaded == IF outcome = "updated" /\ spotify_data.images # <<>>
                                        /\ poster
                                     THEN [edited EXCEPT !.stats.image_updated = @ + 1]
                                     ELSE edited
                     IN  updater' = IF outcome = "updated"
                                    THEN [uploaded EXCEPT !.stats.successful = @ + 1]
                                    ELSE [uploaded EXCEPT !.stats.failed = @ + 1]
  /\ UNCHANGED <<artists, idx, results, pc, start_time, match_result, call, latency, failures,
                 raised_idx, fn_in, fn_out, spotify, reviewer>>

\* lines 87-91: Ctrl-C inside the try block, between two passes of the loop ("between"),
\* inside _update_artist_metadata before or after artist.edit ("in_update", "after_edit":
\* its except Exception does not catch a KeyboardInterrupt), or while the outcome of the
\* update is logged, before the counter of lines 72 and 76 is incremented ("returned_True",
\* "returned_False"). The handler sets completed_at and shows the summary
ApplyInterrupted ==
  /\ updater.state = "running"
  /\ \E point \in {"between", "in_update", "after_edit", "returned_True", "returned_False"} :
       LET at_end == updater.pos = Len(updater.decisions)
           item == updater.decisions[updater.pos + 1]
           spotify_data == IF "spotify_data" \in DOMAIN item.decision
                           THEN item.decision.spotify_data ELSE NoArtist
           outcomes == CASE point = "in_update" -> {"interrupted"}
                         [] point = "after_edit" -> {"interrupted_after_edit"}
                         [] point = "returned_True" -> {"updated"}
                         [] OTHER -> {"fetch_failed", "edit_failed", "reload_failed"}
           handled(st) == [st EXCEPT !.state = "interrupted", !.completed_at = "set",
                                     !.summary = <<st.stats>>]
       IN  IF point = "between"
           THEN updater' = handled(updater)
           ELSE /\ ~at_end
                /\ item.decision.action \in AcceptingActions
                /\ spotify_data # NoArtist
                /\ \E outcome \in outcomes, bio_done, poster \in BOOLEAN :
                     LET called == [updater EXCEPT !.pos = @ + 1,
                                      !.updates = Append(@, [rating_key |-> item.key,
                                                             spotify_data |-> spotify_data,
                                                             outcome |-> outcome])]
                         bio == IF outcome \notin {"fetch_failed", "interrupted"}
                                   \/ (outcome = "interrupted" /\ bio_done)
                                THEN [called EXCEPT !.stats.bios_updated = @ + 1]
                                ELSE called
                         edited == IF outcome \in {"interrupted_after_edit", "updated",
                                                   "reload_failed"}
                                   THEN [bio EXCEPT !.stats.metadata_updated = @ + 1]
                                   ELSE bio
                     IN  updater' = handled(
                           IF outcome \in {"interrupted_after_edit", "updated"}
                              /\ spotify_data.images # <<>> /\ poster
                           THEN [edited EXCEPT !.stats.image_updated = @ + 1]
                           ELSE edited)
  /\ UNCHANGED <<artists, idx, results, pc, start_time, match_result, call, latency, failures,
                 raised_idx, fn_in, fn_out, spotify, reviewer>>

\* lines 98-99: the loop is through, completed_at is set and the summary is shown
CompleteApply ==
  /\ updater.state = "running"
  /\ updater.pos = Len(updater.decisions)
  /\ updater' = [updater EXCEPT !.state = "completed", !.completed_at = "set",
                                !.summary = <<updater.stats>>]
  /\ UNCHANGED <<artists, idx, results, pc, start_time, match_result, call, latency, failures,
                 raised_idx, fn_in, fn_out, spotify, reviewer>>

NextUpdate ==
  \/ ApplyDecisions
  \/ ApplyNextDecision
  \/ ApplyInterrupted
  \/ CompleteApply

SpecUpdate == InitUpdate /\ [][NextUpdate]_vars

(***************************************************************************)
(* run.py: main                                                            *)
(***************************************************************************)

\* ResultsManager._convert_to_json_serializable: the content of the JSON file of a
\* session, without its timestamp. total_processed is sum(len(v) for v in
\* results.values()), over every key the dict has
ConvertToJsonSerializable(res) ==
  LET RECURSIVE SumOfLens(_)
      SumOfLens(keys) ==
        IF keys = {} THEN 0
        ELSE LET k == CHOOSE x \in keys : TRUE
             IN  Len(res[k]) + SumOfLens(keys \ {k})
      candidate(c) == [name |-> c.name, id |-> c.id, genres |-> c.genres,
                       popularity |-> c.popularity, followers |-> c.followers,
                       spotify_url |-> c.spotify_url]
      alternative(c) == [name |-> c.name, id |-> c.id, popularity |-> c.popularity,
                         spotify_url |-> c.spotify_url]
      result_dict(m) ==
        [plex_artist |-> [title |-> m.plex_artist.title,
                          rating_key |-> m.plex_artist.rating_key],
         confidence |-> m.confidence,
         spotify_match |-> IF m.spotify_match # NoArtist THEN candidate(m.spotify_match)
                           ELSE NoArtist,
         alternative_matches |-> [i \in 1..Len(m.alternative_matches) |->
                                    alternative(m.alternative_matches[i])]]
  IN  [matched |-> [i \in 1..Len(res.matched) |-> result_dict(res.matched[i])],
       needs_review |-> [i \in 1..Len(res.needs_review) |-> result_dict(res.needs_review[i])],
       no_matches |-> [i \in 1..Len(res.no_matches) |->
                         [title |-> res.no_matches[i].title,
                          rating_key |-> res.no_matches[i].rating_key]],
       metadata |-> [total_processed |-> SumOfLens(DOMAIN res),
                     statistics |-> [automatic_matches |-> Len(res.matched),
                                     needs_review |-> Len(res.needs_review),
                                     no_matches |-> Len(res.no_matches)]]]

\* main is entered: nothing loaded, nothing connected. fn_out is what main has done so
\* far: the functions it has called, the step that failed, and its return value; fn_in
\* holds the sessions save_results has written to results/json
InitMain ==
  /\ artists = <<>>
  /\ idx = 1
  /\ results = EmptyResults
  /\ pc = "main"
  /\ start_time = 0
  /\ match_result = NoResult
  /\ call = NoCall
  /\ latency = 0
  /\ failures = 0
  /\ raised_idx = {}
  /\ fn_in = {}
  /\ fn_out = [status |-> "None", failed |-> "none", calls |-> {}]
  /\ spotify = InitSpotify
  /\ updater = NoUpdater
  /\ NoReviewer

\* MainConnect that goes on when plex.test_connection() returned False
MainConnectIgnoresPlex ==
  /\ pc = "main"
  /\ \E config \in {"ok", "ConfigError", "OSError"}, spotify_ok, plex_ok \in BOOLEAN :
       LET failed == IF config # "ok" THEN "config"
                     ELSE IF ~spotify_ok THEN "spotify"
                     ELSE IF ~plex_ok THEN "plex" ELSE "none"
           called == {"load_config"}
                       \cup (IF config = "ok" THEN {"spotify.test_connection"} ELSE {})
                       \cup (IF config = "ok" /\ spotify_ok
                             THEN {"plex.test_connection"} ELSE {})
       IN  /\ fn_out' = [status |-> IF failed \in {"config", "spotify"} THEN 1 ELSE "None",
                         failed |-> failed, calls |-> called]
           /\ pc' = IF failed \in {"config", "spotify"} THEN "returned" ELSE "scan"
  /\ UNCHANGED <<artists, idx, results, start_time, match_result, call, latency, failures,
                 raised_idx, fn_in, spotify, reviewer, updater>>

\* lines 44-61: load_config raises ConfigError or another exception (lines 180-186
\* return 1), or the provider's or the library's test_connection returns False (return 1)
MainConnect ==
  /\ pc = "main"
  /\ \E config \in {"ok", "ConfigError", "OSError"}, spotify_ok, plex_ok \in BOOLEAN :
       LET failed == IF config # "ok" THEN "config"
                     ELSE IF ~spotify_ok THEN "spotify"
                     ELSE IF ~plex_ok THEN "plex" ELSE "none"
           called == {"load_config"}
                       \cup (IF config = "ok" THEN {"spotify.test_connection"} ELSE {})
                       \cup (IF config = "ok" /\ spotify_ok
                             THEN {"plex.test_connection"} ELSE {})
       IN  /\ fn_out' = [status |-> IF failed # "none" THEN 1 ELSE "None",
                         failed |-> failed, calls |-> called]
           /\ pc' = IF failed # "none" THEN "returned" ELSE "scan"
  /\ UNCHANGED <<artists, idx, results, start_time, match_result, call, latency, failures,
                 raised_idx, fn_in, spotify, reviewer, updater>>

\* lines 68-111: the library is scanned; without unmatched artists main returns 0,
\* otherwise process_unmatched_artists sorts each artist's result into its bucket (here
\* an exact match, a fuzzy match with the candidate 'a' or with the closer 'abc', or no
\* candidate)
MainMatch ==
  /\ pc = "scan"
  /\ \E unmatched_artists \in DistinctSeqs(Library, MaxArtists) :
       \E kinds \in [1..Len(unmatched_artists) -> {"exact", "fuzzy", "close", "none"}] :
         LET result(i) ==
               CASE kinds[i] = "exact" ->
                      ExactMatchResult(unmatched_artists[i], <<ArtistInfo("s1")>>)
                 [] kinds[i] = "fuzzy" ->
                      FuzzyMatchResult(unmatched_artists[i], <<ArtistInfo("s3")>>)
                 [] kinds[i] = "close" ->
                      FuzzyMatchResult(unmatched_artists[i], <<ArtistInfo("s4")>>)
                 [] OTHER -> FuzzyMatchResult(unmatched_artists[i], <<>>)
         IN  /\ artists' = unmatched_artists
             /\ IF unmatched_artists = <<>>
                THEN /\ results' = results
                     /\ pc' = "returned"
                     /\ fn_out' = [fn_out EXCEPT !.status = 0,
                                     !.calls = @ \cup {"get_unmatched_artists"}]
                ELSE /\ results' = ProcessedResults([i \in 1..Len(unmatched_artists) |->
                                                       result(i)])
                     /\ pc' = "offer"
                     /\ fn_out' = [fn_out EXCEPT
                                     !.calls = @ \cup {"get_unmatched_artists",
                                                       "process_unmatched_artists"}]
  /\ UNCHANGED <<idx, start_time, match_result, call, latency, failures, raised_idx, fn_in,
                 spotify, reviewer, updater>>

\* lines 114-129: with automatic matches, the operator is asked whether to update them
\* now; on 'y' an accept_primary decision per match is handed to apply_decisions
MainOfferUpdate ==
  /\ pc = "offer"
  /\ pc' = "menu"
  /\ \E answer \in {"y", "n"} :
       IF results.matched # <<>> /\ answer = "y"
       THEN /\ updater' = [state |-> "applied",
                           decisions |-> [i \in 1..Len(results.matched) |->
                              [key |-> results.matched[i].plex_artist.rating_key,
                               decision |->
                                 [action |-> "accept_primary",
                                  plex_artist |-> results.matched[i].plex_artist.title,
                                  spotify_id |-> results.matched[i].spotify_match.id,
                                  spotify_data |-> results.matched[i].spotify_match]]]]
            /\ fn_out' = [fn_out EXCEPT !.calls = @ \cup {"apply_decisions"}]
       ELSE UNCHANGED <<updater, fn_out>>
  /\ UNCHANGED <<artists, idx, results, start_time, match_result, call, latency, failures,
                 raised_idx, fn_in, spotify, reviewer>>

\* lines 132-178, one pass of the menu loop. 1: a review session returns its ledger (one
\* decision for each uncertain match, or none), which is kept in results and saved; what
\* the session or the save raises is logged. 2: the review decisions, if there are any,
\* are applied and the loop ends. 3: the results are saved and the loop ends; what
\* save_results raises leaves main with 1. 4: the loop ends. Any other input: asked again
MainMenu ==
  /\ pc = "menu"
  /\ \E choice \in 1..5, accept, raises \in BOOLEAN :
       LET ledger == [i \in 1..Len(results.needs_review) |->
                        [key |-> results.needs_review[i].plex_artist.rating_key,
                         decision |-> Stamp(IF accept
                                            THEN AcceptPrimaryDecision(results.needs_review[i])
                                            ELSE RejectionDecision(results.needs_review[i]),
                                            spotify.now)]]
           reviewed == "review_decisions" \in DOMAIN results
       IN  CASE choice = 1 ->
                  /\ pc' = "menu"
                  /\ decisions' = IF raises THEN decisions ELSE ledger
                  /\ results' = IF raises \/ ledger = <<>> THEN results
                                ELSE ("review_decisions" :> ledger) @@ results
                  /\ fn_out' = [fn_out EXCEPT !.calls =
                                  @ \cup {"start_review_session"}
                                    \cup (IF raises \/ ledger = <<>>
                                          THEN {} ELSE {"save_results"})]
                  /\ fn_in' = IF raises \/ ledger = <<>> THEN fn_in
                              ELSE fn_in \cup {ConvertToJsonSerializable(results')}
                  /\ UNCHANGED <<updater, failures>>
             [] choice = 2 /\ reviewed ->
                  /\ pc' = "returned"
                  /\ updater' = [state |-> "applied", decisions |-> results.review_decisions]
                  /\ fn_out' = [fn_out EXCEPT !.status = 0,
                                              !.calls = @ \cup {"apply_decisions"}]
                  /\ UNCHANGED <<decisions, results, failures, fn_in>>
             [] choice = 3 ->
                  /\ pc' = "returned"
                  /\ fn_out' = [fn_out EXCEPT !.status = IF raises THEN 1 ELSE 0,
                                              !.failed = IF raises THEN "save_results" ELSE @,
                                              !.calls = @ \cup {"save_results"}]
                  /\ failures' = IF raises THEN failures + 1 ELSE failures
                  /\ fn_in' = IF raises THEN fn_in
                              ELSE fn_in \cup {ConvertToJsonSerializable(results)}
                  /\ UNCHANGED <<decisions, results, updater>>
             [] choice = 4 ->
                  /\ pc' = "returned"
                  /\ fn_out' = [fn_out EXCEPT !.status = 0]
                  /\ UNCHANGED <<decisions, results, updater, failures, fn_in>>
             [] OTHER ->
                  UNCHANGED <<pc, decisions, results, updater, fn_out, failures, fn_in>>
  /\ UNCHANGED <<artists, idx, start_time, match_result, call, latency, raised_idx,
                 spotify, review_files, rpc, ridx, manual, inputs, loaded_from, recorded,
                 written, hist, loop>>

NextMain ==
  \/ MainConnect
  \/ MainMatch
  \/ MainOfferUpdate
  \/ MainMenu

SpecMain == InitMain /\ [][NextMain]_vars

(***************************************************************************)
(* Properties of process_unmatched_artists                                 *)
(***************************************************************************)

\* how often artist a occurs in the three buckets together
Occurrences(a) ==
  Cardinality({i \in 1..Len(results.matched) : results.matched[i].plex_artist = a})
    + Cardinality({i \in 1..Len(results.needs_review) : results.needs_review[i].plex_artist = a})
    + Cardinality({i \in 1..Len(results.no_matches) : results.no_matches[i] = a})

BucketSizes ==
  Len(results.matched) + Len(results.needs_review) + Len(results.no_matches)

\* C1: when process_unmatched_artists returns, the three bucket sizes sum to
\* the input length and every input artist is in exactly one bucket
C1_BucketsPartitionInput ==
  pc = "returned" =>
    /\ BucketSizes = Len(artists)
    /\ \A i \in 1..Len(artists) : Occurrences(artists[i]) = 1

\* a returned batch of two: one artist raised, the other was matched
C1_Witness ==
  /\ pc = "returned"
  /\ Len(artists) = 2
  /\ raised_idx # {}
  /\ Len(results.matched) = 1
  /\ Len(results.no_matches) = 1

\* C2: a result with a candidate is in matched exactly if its confidence
\* reaches auto_match_threshold, otherwise in needs_review; so no result in
\* matched has needs_review set
C2_MatchedIffAutoThreshold ==
  /\ \A i \in 1..Len(results.matched) :
       /\ FracLE(AutoMatchThreshold, results.matched[i].confidence)
       /\ ~results.matched[i].needs_review
  /\ \A i \in 1..Len(results.needs_review) :
       FracLT(results.needs_review[i].confidence, AutoMatchThreshold)

\* C5: a non-empty exact search gives a result of type exact with confidence
\* 1.0 whose best candidate has the highest popularity of the exact results
C5_ExactPicksMostPopular ==
  [][(pc = "exact" /\ call.status = "returned" /\ call.result # <<>>) =>
       /\ match_result'.match_type = "exact"
       /\ match_result'.confidence = One
       /\ \A i \in 1..Len(call.result) :
            call.result[i].popularity <= match_result'.spotify_match.popularity]_vars

\* C6: every candidate an exact search returns, and so every best candidate
\* of a result of type exact, has the normalized name that was searched
C6_ExactResultsHaveSearchedName ==
  /\ (pc = "exact" /\ call.status = "returned") =>
       \A i \in 1..Len(call.result) :
         NormalizeArtistName(call.result[i].name) = NormalizeArtistName(artists[idx].title)
  /\ \A i \in 1..Len(results.matched) :
       results.matched[i].match_type = "exact" =>
         NormalizeArtistName(results.matched[i].spotify_match.name)
           = NormalizeArtistName(results.matched[i].plex_artist.title)

\* C7: when the exact and the regular search both return nothing, the result
\* has no candidate and confidence 0, and the artist is appended to
\* no_matches and to no other bucket
C7_NoCandidatesGoToNoMatches ==
  [][/\ (pc = "fuzzy" /\ call.status = "returned" /\ call.result = <<>>) =>
          /\ match_result'.spotify_match = NoArtist
          /\ match_result'.confidence = Zero
     /\ (pc = "classify" /\ match_result.spotify_match = NoArtist) =>
          results' = [results EXCEPT !.no_matches = Append(@, artists[idx])]]_vars

\* a returned batch with an artist in no_matches although nothing raised
C7_Witness ==
  /\ pc = "returned"
  /\ raised_idx = {}
  /\ Len(results.no_matches) > 0

\* C10: an artist whose processing raises is appended to no_matches, the
\* other buckets and the earlier entries stay, the loop goes on, and every
\* artist after it is in exactly one bucket when the batch returns
C10_ExceptionIsContained ==
  /\ [](\A i \in raised_idx :
          /\ \E j \in 1..Len(results.no_matches) : results.no_matches[j] = artists[i]
          /\ pc = "returned" =>
               \A k \in (i + 1)..Len(artists) : Occurrences(artists[k]) = 1)
  /\ [][call.status = "raised" =>
          /\ results' = [results EXCEPT !.no_matches = Append(@, artists[idx])]
          /\ idx' = idx + 1
          /\ pc' = "iterate"]_vars

\* a returned batch whose first artist raised and whose second was matched
C10_Witness ==
  /\ pc = "returned"
  /\ raised_idx = {1}
  /\ Len(artists) = 2
  /\ Len(results.matched) = 1
  /\ results.matched[1].plex_artist = artists[2]

(***************************************************************************)
(* Properties of _calculate_match_confidence                               *)
(***************************************************************************)

\* C8: every computed confidence lies in [0, 1]
C8_ConfidenceInUnitInterval ==
  fn_out # Unset => FracLE(Zero, fn_out) /\ FracLE(fn_out, One)

\* a candidate that is not exact and whose blended sum exceeds 1.0 got 1.0
C8_Witness ==
  /\ fn_out = One
  /\ LET score == CalculateSimilarityScore(fn_in.plex_artist.title, fn_in.spotify_artist.name)
     IN  /\ ~score.is_exact
         /\ fn_in.spotify_artist.popularity = 100
         /\ FracLT(One, FracAdd(score.similarity, Frac(2, 10)))

\* the confidence of every result in the buckets lies in [0, 1] (checked under Spec)
BucketConfidencesInUnitInterval ==
  \A b \in {"matched", "needs_review"} :
    \A i \in 1..Len(results[b]) :
      FracLE(Zero, results[b][i].confidence) /\ FracLE(results[b][i].confidence, One)

\* C9: for a pair that is not exact the confidence is
\* min(1, max(0, base + 0.1*popularity/100 + 0.1*k/4)), k counting genres
\* non-empty, images non-empty, popularity > 0, followers > 0; for an exact
\* pair it is 1.0
C9_BlendFormula ==
  fn_out # Unset =>
    LET c == fn_in.spotify_artist
        score == CalculateSimilarityScore(fn_in.plex_artist.title, c.name)
        k == (IF c.genres # <<>> THEN 1 ELSE 0) + (IF c.images # <<>> THEN 1 ELSE 0)
               + (IF c.popularity > 0 THEN 1 ELSE 0) + (IF c.followers > 0 THEN 1 ELSE 0)
        den == 1000 * score.similarity.d
        num == 1000 * score.similarity.n + c.popularity * score.similarity.d
                 + 25 * k * score.similarity.d
        clamped == IF num > den THEN den ELSE IF num < 0 THEN 0 ELSE num
    IN  IF score.is_exact THEN fn_out = One
        ELSE fn_out.n * den = clamped * fn_out.d

\* a blended confidence strictly inside (0, 1) with popularity and followers counted
C9_Witness ==
  /\ fn_out # Unset
  /\ FracLT(Zero, fn_out)
  /\ FracLT(fn_out, One)
  /\ fn_in.spotify_artist.popularity = 50
  /\ fn_in.spotify_artist.followers = 0
  /\ fn_in.spotify_artist.genres # <<>>

(***************************************************************************)
(* Properties of the decision ledger                                       *)
(***************************************************************************)

\* the decision recorded last for key
LastRecorded(key) ==
  LET last == CHOOSE i \in 1..Len(recorded) :
                /\ recorded[i].key = key
                /\ \A j \in (i + 1)..Len(recorded) : recorded[j].key # key
  IN  recorded[last].decision

WrittenLedger(name) == (CHOOSE w \in written : w.name = name).ledger

Buckets == {"matched", "needs_review", "no_matches"}

\* the artist of the i-th entry of a bucket
BucketArtist(res, bucket, i) ==
  IF bucket = "no_matches" THEN res.no_matches[i] ELSE res[bucket][i].plex_artist

\* where artist a stands in the input
InputPosition(a) == CHOOSE i \in 1..Len(artists) : artists[i] = a

\* C11: the artists are processed in input order: every step that ends the processing of an
\* artist appends the artist at the loop position to the end of one bucket and moves the
\* position on by one; so every bucket lists artists already processed, in the relative
\* order of the input, whatever the outcomes were.
C11_BucketsKeepInputOrder ==
  /\ [](\A bucket \in Buckets : \A i, j \in 1..Len(results[bucket]) :
         /\ \E p \in 1..Len(artists) : artists[p] = BucketArtist(results, bucket, i)
         /\ InputPosition(BucketArtist(results, bucket, i)) < idx
         /\ i < j => InputPosition(BucketArtist(results, bucket, i))
                       < InputPosition(BucketArtist(results, bucket, j)))
  /\ [][results' # results =>
          /\ idx' = idx + 1
          /\ \E bucket \in Buckets :
               /\ Len(results'[bucket]) = Len(results[bucket]) + 1
               /\ BucketArtist(results', bucket, Len(results'[bucket])) = artists[idx]
               /\ \A b \in Buckets \ {bucket} : results'[b] = results[b]]_vars

\* a returned batch whose two artists are in the same bucket for different reasons: the
\* processing of one raised, the other had no candidate
C11_Witness ==
  /\ pc = "returned"
  /\ Len(results.no_matches) = 2
  /\ Cardinality(raised_idx) = 1


(***************************************************************************)
(* Properties of the review session                                        *)
(***************************************************************************)

\* the session ended in this step: start_review_session returned or the program was stopped
SessionEnds == rpc \notin {"closed", "interrupted"} /\ rpc' \in {"closed", "interrupted"}

\* C12: whenever a review session ends with a non-empty ledger (Exit, an error in the menu
\* loop that the operator does not continue after, or an interrupt), the step that ends it
\* asked the operator whether to save the decisions.
C12_SaveOfferedBeforeSessionEnds ==
  [][SessionEnds /\ decisions' # <<>> => hist'.save_offered]_vars


\* C13: when the operator skips an item (an uncertain match, a match shown by
\* _review_single_automatic_match, or a whole batch), the ledger is left as it was, nothing
\* is recorded and no file is written or attempted.
C13_SkipLeavesLedgerUnchanged ==
  [][hist'.answer = "skip" /\ inputs' # inputs
       => /\ decisions' = decisions
          /\ recorded' = recorded
          /\ review_files' = review_files
          /\ written' = written
          /\ failures' = failures]_vars

\* a skip with a ledger of the size at which a recorded decision would have written
C13_Witness ==
  /\ hist.answer = "skip"
  /\ decisions # <<>>
  /\ AutoSaves(decisions)


\* C14: from the moment an item is presented (an uncertain match, a found automatic match
\* or a match of a batch reviewed individually) until the session goes on to the next one,
\* manual search with all its rounds included, _add_decision is called at most once.
C14_AtMostOneDecisionPerItem == hist.item_decisions <= 1


\* the entries accept-all added to the history of recorded decisions
NewlyRecorded == SubSeq(recorded', Len(recorded) + 1, Len(recorded'))

\* C15: accept-all records, for each match of the batch that has a best candidate, exactly
\* one accept_primary decision under the match's rating key and with the match's best
\* candidate; it records nothing else, and leaves the decisions of all other keys alone.
C15_AcceptAllRecordsEachBatchItemOnce ==
  [][hist'.answer = "accept_all" /\ inputs' # inputs
       => LET batch == loop.items
              keys == { batch[i].plex_artist.rating_key : i \in 1..Len(batch) }
          IN  /\ \A i \in 1..Len(batch) :
                   LET of_item == { j \in 1..Len(NewlyRecorded) :
                                      NewlyRecorded[j].key = batch[i].plex_artist.rating_key }
                   IN  IF batch[i].spotify_match = NoArtist THEN of_item = {}
                       ELSE /\ Cardinality(of_item) = 1
                            /\ \A j \in of_item :
                                 /\ NewlyRecorded[j].decision.action = "accept_primary"
                                 /\ NewlyRecorded[j].decision.spotify_data = batch[i].spotify_match
                                 /\ [key |-> NewlyRecorded[j].key,
                                     decision |-> NewlyRecorded[j].decision]
                                       \in { decisions'[n] : n \in 1..Len(decisions') }
              /\ \A j \in 1..Len(NewlyRecorded) : NewlyRecorded[j].key \in keys
              /\ \A n \in 1..Len(decisions) :
                   decisions[n].key \notin keys => decisions'[n] = decisions[n]]_vars


\* C18: a call of _add_decision makes _auto_save write exactly when it is the 10th, 20th, ...
\* recorded decision, overwrites counted; the count is taken from the start of the session
\* or, when a session was loaded, from the first decision of the loaded ledger.
C18_AutoSaveOnEveryTenthCall ==
  [][hist'.calls = hist.calls + 1
       => \/ hist'.auto_saved <=> hist'.calls % AutoSaveEvery = 0
          \/ hist'.auto_saved <=> Len(recorded') % AutoSaveEvery = 0]_vars


\* the operator answered and a write of the ledger failed
SaveFailed == inputs' # inputs /\ failures' # failures

\* C19: when a write of the ledger fails, in _auto_save or in 'Save progress', the ledger
\* holds the latest recorded decision of every artist, the one that triggered the write
\* included, and the session has not ended: it is at a prompt, and a yes to 'Would you like
\* to continue?' shows the menu again with the ledger as it was.
C19_FailedSaveKeepsLedgerAndSession ==
  /\ [][SaveFailed
          => /\ \A j \in 1..Len(recorded') :
                  \/ \E n \in (j + 1)..Len(recorded') : recorded'[n].key = recorded'[j].key
                  \/ \E n \in 1..Len(decisions') :
                       /\ decisions'[n].key = recorded'[j].key
                       /\ decisions'[n].decision = recorded'[j].decision
             /\ rpc' \notin {"closed", "interrupted", "idle"}]_vars
  /\ [][rpc = "error" /\ hist'.answer = "continue"
          => rpc' = "menu" /\ decisions' = decisions]_vars

\* the tenth decision was recorded in a batch reviewed individually, its auto-save failed,
\* and the operator continued to the menu with the decision in the ledger
C19_Witness ==
  /\ rpc = "menu"
  /\ hist.answer = "continue"
  /\ failures = 1
  /\ Len(decisions) = AutoSaveEvery
  /\ HasDecision(decisions, "k1")


(***************************************************************************)
(* Properties of the connector's cache                                     *)
(***************************************************************************)

\* C16: a search whose cache entry had expired when it began does not return before it
\* has made a provider request, whatever the name and the searches before it.
C16_ExpiredEntryForcesRequest ==
  call.status = "returned" /\ fn_in.expired => fn_in.requests > 0

\* C17: the cache never holds more than cache_max_size entries, and an entry that
\* _cleanup_cache drops is no newer than any entry that stays.
C17_CacheBoundedOldestDropped ==
  /\ [](Len(spotify.cache) <= CacheMaxSize)
  /\ [][\A i \in 1..Len(spotify.cache), k \in 1..Len(spotify'.cache) :
          /\ ~HasKey(spotify'.cache, spotify.cache[i].key)
          /\ spotify'.now - spotify.cache[i].time < CacheTimeout
          => spotify.cache[i].time <= spotify'.cache[k].time]_vars

\* the cache is full after an entry was dropped for a newer one
C17_Witness ==
  /\ fn_in.dropped > 0
  /\ Len(spotify.cache) = CacheMaxSize

\* a step in which search_artist is called with a key whose entry is younger than
\* cache_timeout at the time of the call; the clock does not move before the cache is read
FreshEntry ==
  /\ fn_in'.searches = fn_in.searches + 1
  /\ \E i \in 1..Len(spotify.cache) :
       /\ spotify.cache[i].key = CacheKey(fn_in'.name, fn_in'.exact_match)
       /\ spotify'.now - spotify.cache[i].time < CacheTimeout

\* _handle_rate_limit admitted one request in the step: request_count is one more than
\* before, or 1 after a reset of the window
OneAdmission ==
  \/ spotify'.request_count = spotify.request_count + 1
  \/ spotify'.window_start # spotify.window_start /\ spotify'.request_count = 1

\* C39: a search whose key has a cache entry younger than cache_timeout returns the stored
\* list, makes no provider request and leaves request_count and the cache as they were;
\* and every provider request of a search comes with one admission by the rate limiter.
C39_CacheHitMakesNoRequest ==
  /\ [][FreshEntry
          => /\ call' = Returned(spotify.cache[IndexOfKey(spotify.cache,
                                    CacheKey(fn_in'.name, fn_in'.exact_match))].data)
             /\ fn_in'.requests = 0
             /\ spotify'.request_count = spotify.request_count
             /\ spotify'.cache = spotify.cache]_vars
  /\ [][fn_in'.requests # fn_in.requests /\ fn_in'.searches = fn_in.searches
          => fn_in'.requests = fn_in.requests + 1 /\ OneAdmission]_vars
  /\ [][spotify'.request_count # spotify.request_count
          => fn_in'.requests = fn_in.requests + 1]_vars

\* the third search found its entry, stored by a search before it that made a request, and
\* returned it while a request had been admitted
C39_Witness ==
  /\ fn_in.fresh
  /\ fn_in.requests = 0
  /\ fn_in.searches >= 2
  /\ call.status = "returned"
  /\ call.result # <<>>
  /\ spotify.request_count > 0


(***************************************************************************)
(* Properties of apply_decisions                                           *)
(***************************************************************************)

\* the items of the ledger the for loop is through with
Applied == SubSeq(updater.decisions, 1, updater.pos)

\* C20: every call of _update_artist_metadata is for a decision of the ledger whose action
\* is accept_primary, accept_alternative or manual_match, with that decision's rating key
\* and that decision's spotify_data; a no_match decision causes no call and is counted in
\* stats['skipped'].
C20_UpdatesOnlyForAcceptedDecisions ==
  updater.state \in {"running", "completed"}
    => /\ \A u \in 1..Len(updater.updates) :
            \E i \in 1..Len(Applied) :
              /\ Applied[i].key = updater.updates[u].rating_key
              /\ Applied[i].decision.action
                   \in {"accept_primary", "accept_alternative", "manual_match"}
              /\ Applied[i].decision.spotify_data = updater.updates[u].spotify_data
       /\ \A i \in 1..Len(Applied) :
            Applied[i].decision.action = "no_match"
              => \A u \in 1..Len(updater.updates) :
                   updater.updates[u].rating_key # Applied[i].key
       /\ updater.stats.skipped
            = Cardinality({ i \in 1..Len(Applied) : Applied[i].decision.action = "no_match" })

\* a ledger with a rejection between two acceptances was applied
C20_Witness ==
  /\ updater.state = "completed"
  /\ Len(updater.decisions) = 3
  /\ updater.decisions[2].decision.action = "no_match"
  /\ updater.stats.skipped = 1
  /\ Len(updater.updates) = 2


\* the number of calls of _update_artist_metadata with one of these outcomes
UpdatesWith(outcomes) ==
  Cardinality({ u \in 1..Len(updater.updates) : updater.updates[u].outcome \in outcomes })

\* the accepted decisions without spotify_data the loop is through with
WithoutData ==
  Cardinality({ i \in 1..Len(Applied) :
                  /\ Applied[i].decision.action
                       \in {"accept_primary", "accept_alternative", "manual_match"}
                  /\ Applied[i].decision.spotify_data = NoArtist })

\* the pass of the loop that is being made ends with the artist's update failed
PassFails ==
  /\ updater.state = "running"
  /\ updater'.state = "running"
  /\ updater'.pos = updater.pos + 1
  /\ updater.decisions[updater'.pos].decision.action
       \in {"accept_primary", "accept_alternative", "manual_match"}
  /\ \/ updater'.updates = updater.updates
     \/ updater'.updates[Len(updater'.updates)].outcome # "updated"

\* C21: a pass of the loop in which the update fails (fetchItem, edit or reload raised, or
\* the decision has no spotify_data) adds exactly one to stats['failed'], leaves total,
\* successful and skipped and the updates made for other artists as they were, and the
\* loop goes on: when apply_decisions completes, _update_artist_metadata has been called
\* for every accepted decision with spotify_data, whatever failed before it.
C21_FailureCountedOnceLoopGoesOn ==
  /\ [][PassFails =>
          /\ updater'.stats.failed = updater.stats.failed + 1
          /\ updater'.stats.total = updater.stats.total
          /\ updater'.stats.successful = updater.stats.successful
          /\ updater'.stats.skipped = updater.stats.skipped
          /\ SubSeq(updater'.updates, 1, Len(updater.updates)) = updater.updates]_vars
  /\ [](updater.state = "completed"
          => /\ updater.stats.failed
                  = UpdatesWith({"fetch_failed", "edit_failed", "reload_failed"}) + WithoutData
             /\ \A i \in 1..Len(updater.decisions) :
                  /\ updater.decisions[i].decision.action
                       \in {"accept_primary", "accept_alternative", "manual_match"}
                  /\ updater.decisions[i].decision.spotify_data # NoArtist
                  => \E u \in 1..Len(updater.updates) :
                       updater.updates[u].rating_key = updater.decisions[i].key)

\* the first artist had no spotify_data, the update of the second raised, the third was
\* updated
C21_Witness ==
  /\ updater.state = "completed"
  /\ Len(updater.decisions) = 3
  /\ updater.decisions[1].decision.action = "accept_primary"
  /\ updater.decisions[1].decision.spotify_data = NoArtist
  /\ Len(updater.updates) = 2
  /\ updater.updates[1].outcome = "edit_failed"
  /\ updater.updates[2].outcome = "updated"
  /\ updater.stats.failed = 2
  /\ updater.stats.successful = 1

\* C22: after Ctrl-C in apply_decisions no further update is made, stats['successful'] is
\* the number of updates that returned True and stats['failed'] the number of artists
\* whose update failed, and the summary has been shown with completed_at set.
C22_InterruptKeepsCountersTrue ==
  /\ [](updater.state = "interrupted"
          => /\ updater.stats.successful = UpdatesWith({"updated"})
             /\ updater.stats.failed
                  = UpdatesWith({"fetch_failed", "edit_failed", "reload_failed"}) + WithoutData
             /\ updater.completed_at = "set"
             /\ updater.summary = <<updater.stats>>)
  /\ [][updater.state = "interrupted" => updater'.updates = updater.updates]_vars


\* the decisions of the dict whose action is an accepting one
AcceptedCount ==
  Cardinality({ i \in 1..Len(updater.decisions) :
                  updater.decisions[i].decision.action \in AcceptingActions })

C23_NormalizeIdempotent ==
  pc = "normalized" => fn_out.again = fn_out.normalized

\* a name with nested and unbalanced parentheses was normalized to a non-empty name
C23_Witness ==
  /\ pc = "normalized"
  /\ fn_in.name1 = <<"(", "(", ")", "a">>
  /\ fn_out.normalized = <<"a">>

\* the procedure of the documentation: lower-case, parenthesized and bracketed parts
\* removed, every character that is not alphanumeric, whitespace, hyphen or period
\* replaced by a blank, blanks collapsed, trimmed
ReferenceNormalize(name) ==
  LET bare == RemoveDelimited(RemoveDelimited(Lower(name), "(", ")"), "[", "]")
      allowed == (WordChars \ {"_"}) \cup SpaceChars \cup {"-", "."}
  IN  Strip(CollapseSpaces([i \in 1..Len(bare) |->
                              IF bare[i] \in allowed THEN bare[i] ELSE " "]))

\* C24: _normalize_artist_name returns what the documented procedure returns: periods
\* are kept, and any other character that is not alphanumeric, whitespace or a hyphen
\* becomes a blank, so that a slash between two words separates them.
C24_NormalizeIsReferenceProcedure ==
  pc = "normalized" => fn_out.normalized = ReferenceNormalize(fn_in.name1)

\* C25: the scorer's flag is true exactly when the two normalized names are equal, and
\* then the similarity is 1.0; otherwise the similarity is in [0,1]. Names that normalize
\* to the empty string are no exception.
C25_ExactIffNormalizedEqual ==
  pc = "scored"
    => /\ fn_out.is_exact
            <=> NormalizeArtistName(fn_in.name1) = NormalizeArtistName(fn_in.name2)
       /\ fn_out.is_exact => fn_out.similarity = One
       /\ FracLE(Zero, fn_out.similarity) /\ FracLE(fn_out.similarity, One)

\* two different names that both normalize to the empty string were scored as exact
C25_Witness ==
  /\ pc = "scored"
  /\ fn_in.name1 = <<"/", "(", ")">>
  /\ fn_in.name2 = <<>>
  /\ fn_out.is_exact


(***************************************************************************)
(* Properties of main                                                      *)
(***************************************************************************)

\* C26: when load_config, the provider's connection test or the library's connection test
\* fails, main returns 1 without having scanned the library, matched an artist or applied
\* a decision; when main runs to its end without a failure it returns 0.
C26_ExitStatus ==
  /\ fn_out.failed \in {"config", "spotify", "plex"}
       => /\ pc = "returned"
          /\ fn_out.status = 1
          /\ fn_out.calls \cap {"get_unmatched_artists", "process_unmatched_artists",
                                "apply_decisions"} = {}
          /\ artists = <<>> /\ results = EmptyResults /\ updater = NoUpdater
  /\ pc = "returned" /\ fn_out.failed = "none" => fn_out.status = 0

\* the provider answered, the library did not
C26_Witness ==
  /\ pc = "returned"
  /\ fn_out.failed = "plex"
  /\ fn_out.calls = {"load_config", "spotify.test_connection", "plex.test_connection"}

\* the automatic matches and the review decisions were applied, and main returned 0
C26_WitnessCompleted ==
  /\ pc = "returned"
  /\ fn_out.status = 0
  /\ {"apply_decisions", "start_review_session"} \subseteq fn_out.calls


\* the MatchResult of the artist with this rating key, in whichever bucket it is
ResultOf(key) ==
  LET all == results.matched \o results.needs_review
  IN  all[CHOOSE i \in 1..Len(all) : all[i].plex_artist.rating_key = key]

\* C34: an artist whose result has needs_review = true is updated only when the ledger of
\* the review session holds a decision of the operator that accepts a candidate for it,
\* and the answer 'y' to the offer to update the automatic matches hands over only
\* artists whose confidence is at least auto_match_threshold.
C34_UncertainUpdatedOnlyOnDecision ==
  /\ [](updater # NoUpdater
          => \A i \in 1..Len(updater.decisions) :
               LET key == updater.decisions[i].key
               IN  /\ updater.decisions[i].decision.action \in AcceptingActions
                   /\ ResultOf(key).needs_review
                   => \E d \in 1..Len(decisions) :
                        /\ decisions[d].key = key
                        /\ decisions[d].decision.action \in AcceptingActions)
  /\ [][pc = "offer" /\ updater' # updater
          => \A i \in 1..Len(updater'.decisions) :
               FracLE(AutoMatchThreshold, ResultOf(updater'.decisions[i].key).confidence)]_vars

\* the decisions handed over from the menu (choice 2) are the operator's: each updated
\* artist has an accepting decision in the ledger
C34_ReviewedUpdatesAreDecided ==
  [][pc = "menu" /\ updater' # updater
       => \A i \in 1..Len(updater'.decisions) :
            updater'.decisions[i].decision.action \in AcceptingActions
              => \E d \in 1..Len(decisions) :
                   /\ decisions[d].key = updater'.decisions[i].key
                   /\ decisions[d].decision = updater'.decisions[i].decision]_vars

\* an uncertain match was accepted in the review session and applied from the menu
C34_WitnessReviewed ==
  /\ pc = "returned"
  /\ updater # NoUpdater
  /\ \E i \in 1..Len(updater.decisions) :
       /\ updater.decisions[i].decision.action = "accept_primary"
       /\ ResultOf(updater.decisions[i].key).needs_review
       /\ updater.decisions[i].key \in
            { results.needs_review[j].plex_artist.rating_key : j \in 1..Len(results.needs_review) }


\* C37: in every session save_results has written, total_processed is the sum of the three
\* statistics, which is the number of artists in the three buckets.
C37_TotalProcessedIsSumOfBuckets ==
  \A session \in fn_in :
    /\ session.metadata.total_processed
         = session.metadata.statistics.automatic_matches
             + session.metadata.statistics.needs_review
             + session.metadata.statistics.no_matches
    /\ session.metadata.total_processed
         = Len(session.matched) + Len(session.needs_review) + Len(session.no_matches)

\* the same for the sessions saved while the results hold no review decisions
C37_HoldsWithoutReviewDecisions ==
  "review_decisions" \notin DOMAIN results
    => \A session \in fn_in :
         session.metadata.total_processed
           = Len(session.matched) + Len(session.needs_review) + Len(session.no_matches)

\* results of two artists were saved from the menu without a review
C37_WitnessSavedWithoutReview ==
  /\ pc = "returned"
  /\ "review_decisions" \notin DOMAIN results
  /\ \E session \in fn_in : session.metadata.total_processed = 2


(***************************************************************************)
(* Properties of the ranking of candidates                                 *)
(***************************************************************************)

\* the confidence _calculate_match_confidence gives a candidate for the artist at hand
ConfidenceOf(candidate) == CalculateMatchConfidence(fn_in.artist, candidate)

\* the list the result was chosen from
Candidates ==
  IF fn_in.exact_results # <<>> THEN fn_in.exact_results ELSE fn_in.search_results

\* C27: in the fuzzy branch no candidate has a higher confidence than the best candidate,
\* the result's confidence is the best candidate's, the alternatives follow in
\* non-increasing confidence, none above the best, and needs_review is true exactly when
\* the confidence is below auto_match_threshold.
C27_FuzzyBestIsMaximum ==
  pc = "ranked" /\ fn_out.match_type = "fuzzy"
    => /\ fn_out.confidence = ConfidenceOf(fn_out.spotify_match)
       /\ \A i \in 1..Len(fn_in.search_results) :
            FracLE(ConfidenceOf(fn_in.search_results[i]), fn_out.confidence)
       /\ \A i, j \in 1..Len(fn_out.alternative_matches) :
            i < j => FracLE(ConfidenceOf(fn_out.alternative_matches[j]),
                            ConfidenceOf(fn_out.alternative_matches[i]))
       /\ fn_out.needs_review <=> FracLT(fn_out.confidence, AutoMatchThreshold)

\* the best of three candidates was the last one the provider returned, and it needs
\* a review
C27_Witness ==
  /\ pc = "ranked"
  /\ fn_out.match_type = "fuzzy"
  /\ Len(fn_in.search_results) = 3
  /\ fn_out.spotify_match = fn_in.search_results[3]
  /\ fn_out.needs_review
  /\ fn_out.alternative_matches # <<>>

\* C28: the alternatives are the min(max_alternatives, n - 1) candidates that come after
\* the best one among the n candidates: never the best one itself, never more than
\* max_alternatives, and max_alternatives of them when that many other candidates exist.
C28_AlternativesAreTheNextCandidates ==
  pc = "ranked" /\ fn_out.match_type \in {"exact", "fuzzy"}
    => /\ Len(fn_out.alternative_matches)
            = (IF Len(Candidates) - 1 < MaxAlternatives
               THEN Len(Candidates) - 1 ELSE MaxAlternatives)
       /\ \A i \in 1..Len(fn_out.alternative_matches) :
            /\ fn_out.alternative_matches[i] # fn_out.spotify_match
            /\ \E j \in 1..Len(Candidates) : Candidates[j] = fn_out.alternative_matches[i]

\* the candidates of the result in the order of their ranking
Ranked == <<fn_out.spotify_match>> \o fn_out.alternative_matches

\* the first candidate precedes the second by the documented order: the exact flag, then
\* the confidence, then the similarity, then the popularity
Precedes(first, second) ==
  LET s1 == CalculateSimilarityScore(fn_in.artist.title, first.name)
      s2 == CalculateSimilarityScore(fn_in.artist.title, second.name)
  IN  /\ s2.is_exact => s1.is_exact
      /\ ConfidenceOf(first) = ConfidenceOf(second)
           => /\ FracLE(s2.similarity, s1.similarity)
              /\ s1.similarity = s2.similarity => second.popularity <= first.popularity

\* C29: in the fuzzy branch a candidate with an exact name is never ranked below one
\* without, and of two candidates with the same confidence the one with the higher
\* similarity, then the higher popularity, is ranked first, in whatever order the
\* provider returned them.
C29_TiesBrokenBySimilarityThenPopularity ==
  pc = "ranked" /\ fn_out.match_type = "fuzzy"
    => /\ \A i, j \in 1..Len(Ranked) : i < j => Precedes(Ranked[i], Ranked[j])
       /\ \A i \in 1..Len(fn_in.search_results) :
            Precedes(fn_out.spotify_match, fn_in.search_results[i])


(***************************************************************************)
(* Properties of _choose_alternative                                       *)
(***************************************************************************)

\* the uncertain match with this rating key
UncertainMatch(key) ==
  CHOOSE m \in { results.needs_review[i] : i \in 1..Len(results.needs_review) } :
    m.plex_artist.rating_key = key

\* C30: a decision is recorded by 'Choose alternative match' only for an item that has
\* alternatives, and its candidate is the alternative at an index between 1 and their
\* number; every accept_alternative decision of the ledger carries one of the alternatives
\* of its item.
C30_AlternativeIsOneOfTheItems ==
  /\ [][hist'.answer = "alternative" /\ inputs' # inputs
          => LET match == results.needs_review[ridx]
             IN  IF match.alternative_matches = <<>>
                 THEN decisions' = decisions /\ recorded' = recorded
                 ELSE /\ Len(recorded') = Len(recorded) + 1
                      /\ recorded'[Len(recorded')].key = match.plex_artist.rating_key
                      /\ recorded'[Len(recorded')].decision.action = "accept_alternative"
                      /\ \E i \in 1..Len(match.alternative_matches) :
                           recorded'[Len(recorded')].decision.spotify_data
                             = match.alternative_matches[i]]_vars
  /\ [](\A d \in 1..Len(decisions) :
          decisions[d].decision.action = "accept_alternative"
            => \E i \in 1..Len(UncertainMatch(decisions[d].key).alternative_matches) :
                 decisions[d].decision.spotify_data
                   = UncertainMatch(decisions[d].key).alternative_matches[i])

\* the second of the two alternatives of the first uncertain match is in the ledger
C30_Witness ==
  /\ Len(results.needs_review) > 0
  /\ Len(results.needs_review[1].alternative_matches) = 2
  /\ \E d \in 1..Len(decisions) :
       /\ decisions[d].key = results.needs_review[1].plex_artist.rating_key
       /\ decisions[d].decision.action = "accept_alternative"
       /\ decisions[d].decision.spotify_data = results.needs_review[1].alternative_matches[2]

\* the last uncertain match has no alternatives and was answered with 'Choose alternative
\* match': the pass is over and the answer recorded nothing
C30_WitnessNoAlternatives ==
  /\ hist.answer = "alternative"
  /\ hist.item_decisions = 0
  /\ rpc = "menu"
  /\ Len(results.needs_review) > 0
  /\ results.needs_review[Len(results.needs_review)].alternative_matches = <<>>


(***************************************************************************)
(* Properties of _batch_review_matches                                     *)
(***************************************************************************)

\* ceil(n / BatchSize)
BatchesOf(n) == (n + BatchSize - 1) \div BatchSize

\* the batch of the needs-review list that starts after start_idx items
BatchAt(start_idx) ==
  LET matches == results.needs_review
  IN  [i \in 1..(IF start_idx + BatchSize < Len(matches) THEN BatchSize
                 ELSE Len(matches) - start_idx) |-> matches[start_idx + i]]

\* a batch prompt is shown by this step
BatchPresented ==
  rpc' = "batch" /\ (rpc # "batch" \/ loop'.start_idx # loop.start_idx)

\* C31: the batches shown are the consecutive slices of at most 5 items of the
\* needs-review list, the first one starting at its first item and each next one right
\* after the one before; unless the operator chose exit, the batch review ends only after
\* the batch that holds the last item, which is prompt number ceil(n/5); and the exit
\* choice ends the batch review with no further batch.
C31_BatchesPartitionTheList ==
  /\ [][BatchPresented
          => /\ loop'.kind = "batch"
             /\ loop'.start_idx = (IF loop.kind = "batch" THEN loop.start_idx + BatchSize ELSE 0)
             /\ loop'.start_idx < Len(results.needs_review)
             /\ loop'.items = BatchAt(loop'.start_idx)
             /\ Len(loop'.items) \in 1..BatchSize]_vars
  /\ [][loop.kind = "batch" /\ loop'.kind # "batch" /\ hist'.answer # "exit_batch"
          => (loop.start_idx \div BatchSize) + 1 = BatchesOf(Len(results.needs_review))]_vars
  /\ [][hist'.answer = "exit_batch" => rpc' = "menu" /\ loop' = NoLoop]_vars

\* the same without the steps in which a write of the auto-save failed
C31_WithoutFailedSaves ==
  /\ [][BatchPresented
          => /\ loop'.kind = "batch"
             /\ loop'.start_idx = (IF loop.kind = "batch" THEN loop.start_idx + BatchSize ELSE 0)
             /\ loop'.items = BatchAt(loop'.start_idx)]_vars
  /\ [][loop.kind = "batch" /\ loop'.kind # "batch" /\ hist'.answer # "exit_batch"
          /\ failures' = failures
          => (loop.start_idx \div BatchSize) + 1 = BatchesOf(Len(results.needs_review))]_vars

\* the third batch of a list of eleven is shown: it holds the eleventh item only
C31_WitnessThirdBatch ==
  /\ Len(results.needs_review) = 11
  /\ rpc = "batch"
  /\ loop.start_idx = 2 * BatchSize
  /\ Len(loop.items) = 1


(***************************************************************************)
(* Properties of one search_artist call                                    *)
(***************************************************************************)

\* provider requests sent so far with this query
QueriesFor(name) ==
  Cardinality({ i \in 1..Len(fn_in.queries) : fn_in.queries[i] = name })

C32_WitnessNineRequests ==
  /\ pc = "searched"
  /\ fn_in.name = <<"a", "&", "b", "c">>
  /\ fn_in.queries = << <<"a">>, <<"a">>, <<"a">>, <<"b", "c">>, <<"b", "c">>, <<"b", "c">>,
                        <<"a", "&", "b", "c">>, <<"a", "&", "b", "c">>, <<"a", "&", "b", "c">> >>


(***************************************************************************)
(* Properties of the rate limiter                                          *)
(***************************************************************************)

\* C33: request_count is never above request_limit, no more than request_limit requests
\* are admitted between two settings of window_start, and a request that finds the limit
\* reached is admitted only once window_size seconds have passed since window_start.
C33_RequestCountWithinLimit ==
  /\ [](pc = "limiter"
          => /\ spotify.request_count <= RequestLimit
             /\ fn_in.admitted <= RequestLimit)
  /\ [][pc = "limiter" /\ spotify.request_count >= RequestLimit
          => spotify'.now >= spotify.window_start + WindowSize]_vars

\* the requests that find the limit reached are held back until the window is over
C33_DelayedUntilWindowEnds ==
  [][pc = "limiter" /\ spotify.request_count >= RequestLimit
       => spotify'.now >= spotify.window_start + WindowSize]_vars

\* the limit was reached early in the window and the next request waited for its end
C33_WitnessDelayed ==
  /\ pc = "limiter"
  /\ fn_in.calls = RequestLimit + 1
  /\ fn_out.request_count = RequestLimit
  /\ fn_out.now < fn_out.window_start + WindowSize
  /\ spotify.now = fn_out.window_start + WindowSize
  /\ spotify.request_count = 1


(***************************************************************************)
(* process_unmatched_artists without artists                               *)
(***************************************************************************)

\* C36: called with an empty list, process_unmatched_artists returns three empty buckets
\* and raises nothing.
C36_EmptyListReturnsEmptyBuckets ==
  artists = <<>> /\ pc \in {"returned", "raised"}
    => pc = "returned" /\ results = EmptyResults

\* a list of one artist returns
C36_WitnessNonEmptyReturns ==
  pc = "returned" /\ Len(artists) = 1

\* the ledger after the given recorded calls of _add_decision, in their order
RECURSIVE LedgerWith(_, _)
LedgerWith(ledger, calls) ==
  IF calls = <<>> THEN ledger
  ELSE LedgerWith(DictSet(ledger, Head(calls).key, Head(calls).decision), Tail(calls))

\* a candidate held as a SpotifyArtistInfo: the dict of _spotify_artist_to_dict has no bio
IsArtistInfo(candidate) == "bio" \in DOMAIN candidate

\* a step in which _save_review_progress ran: menu choice 5, the exit prompt, _auto_save
SaveStep ==
  /\ Len(recorded') >= Len(recorded)
  /\ \/ hist'.answer \in {"save", "exit"} /\ inputs' # inputs
     \/ hist'.auto_saved /\ Len(recorded') > Len(recorded)

\* C38: _save_review_progress, successful or failed, leaves the ledger in memory as it
\* was handed to it: the same keys with the same decisions, and every accepted decision
\* still holds its candidate as a SpotifyArtistInfo, not as the dict that was serialized.
C38_SaveLeavesLedgerUnchanged ==
  /\ [][SaveStep =>
          decisions' = LedgerWith(decisions,
                                  SubSeq(recorded', Len(recorded) + 1, Len(recorded')))]_vars
  /\ [](\A i \in 1..Len(decisions) :
          "spotify_data" \in DOMAIN decisions[i].decision
            => IsArtistInfo(decisions[i].decision.spotify_data))

\* menu choice 5 wrote a ledger with an accepted decision to a file, and the session is
\* back at the menu
C38_Witness ==
  /\ hist.answer = "save"
  /\ rpc = "menu"
  /\ \E f \in review_files :
       /\ f.complete
       /\ \E i \in 1..Len(f.content) :
            /\ f.content[i].decision.action = "accept_primary"
            /\ ~IsArtistInfo(f.content[i].decision.spotify_data)
            /\ \E j \in 1..Len(decisions) :
                 /\ decisions[j].key = f.content[i].key
                 /\ decisions[j].decision.action = "accept_primary"

\* menu choice 5 failed to write a ledger that holds an accepted decision
C38_WitnessFailedSave ==
  /\ hist.answer = "save"
  /\ rpc = "error"
  /\ \E j \in 1..Len(decisions) : decisions[j].decision.action = "accept_primary"

\* C40: in every state of a review session, a decision of the ledger with the action
\* accept_primary, accept_alternative or manual_match carries a candidate that is not None
\* and whose id is the decision's spotify_id, and a decision with the action no_match
\* carries no candidate; a ledger loaded from a file of an earlier session included.
C40_AcceptedDecisionsCarryTheirCandidate ==
  \A i \in 1..Len(decisions) :
    LET decision == decisions[i].decision
    IN  /\ decision.action \in AcceptingActions
             => /\ "spotify_data" \in DOMAIN decision
                /\ decision.spotify_data # NoArtist
                /\ decision.spotify_data.id = decision.spotify_id
        /\ decision.action = "no_match"
             => "spotify_data" \notin DOMAIN decision /\ "spotify_id" \notin DOMAIN decision

\* the ledger holds an accepted alternative and a rejection
C40_Witness ==
  /\ \E i \in 1..Len(decisions) :
       /\ decisions[i].decision.action = "accept_alternative"
       /\ decisions[i].decision.spotify_id = decisions[i].decision.spotify_data.id
  /\ \E i \in 1..Len(decisions) : decisions[i].decision.action = "no_match"

\* a session was resumed from a file whose ledger holds an accepted match
C40_WitnessRestored ==
  /\ loaded_from # NotLoaded
  /\ hist.answer = "start"
  /\ \E i \in 1..Len(decisions) :
       /\ decisions[i].decision.action \in AcceptingActions
       /\ IsArtistInfo(decisions[i].decision.spotify_data)

\* a match found by the manual search is in the ledger
C40_WitnessManualMatch ==
  \E i \in 1..Len(decisions) :
    /\ decisions[i].decision.action = "manual_match"
    /\ decisions[i].decision.spotify_data.id = decisions[i].decision.spotify_id

====
